---- MODULE Spec2Model ----
(***************************************************************************)
(* Eventbase (markwylde/eventbase): an event-sourced key-value store.      *)
(* Every base publishes PUT/DELETE events to one JetStream stream, and a   *)
(* projector per base replays the stream into a local document store (db), *)
(* a metadata store (meta) and a checkpoint (settings).  Writers publish,  *)
(* wait on the process-wide sequenceWaiters map until the projector        *)
(* releases them, read the local store and compact the log.                *)
(*                                                                         *)
(* An EventbaseManager keeps one base per stream name, opens it on demand  *)
(* and closes idle ones from a timer.                                      *)
(*                                                                         *)
(* The model follows src/src/index.ts lines 1-470 and src/src/manager.ts   *)
(* lines 100-226 (the current revisions).                                  *)
(* Every await of the source is a point where other tasks may run; steps   *)
(* that have no observable interleaving between them are taken together.   *)
(***************************************************************************)
EXTENDS Integers, Sequences, FiniteSets, TLC

\* ------------------------------------------------------------- bounds ----
MaxSeq == 3        \* events published to the stream in a run
MaxSeqPair == 2    \* the same, in the runs with two bases
MaxSeqIso == 1     \* events per stream in SpecIso
MaxSeqLife == 1    \* the same, in the runs with close()
MaxOps == 2        \* put/delete calls in flight at once
MaxSubs == 2       \* subscribe calls made on a base
MaxSeqSubs == 2    \* events published in the runs with subscribers
MaxCallers == 2    \* getStream calls in flight at once
MaxTime == 2       \* last reading of the clock, in seconds
MaxSeqRestart == 2 \* events published in the runs with close and reopen
MaxCrashes == 1    \* times the process is killed
MaxSeqFaults == 2  \* events published in the runs with failing hooks, stores and purges
MaxSeqBarrier == 2 \* events published in the runs under fair scheduling
MaxLen == 2        \* characters of a document found under seqKey
MaxSeqGet == 2     \* events published in the runs with step-by-step get
MaxSeqAccess == 1  \* events published in the runs with a clock
MaxSeqReentrant == 2 \* events published in the runs with callbacks that dispose
MaxSeqOpening == 2 \* events published before a base is opened under fair scheduling

Keys == {"k1", "k2"}
Vals == {"v1", "v2"}
Bases == {"A", "B"}
Streams == {"S1", "S2"}
OpIds == 1..(MaxOps + 1)
Filters == {"k1", "k*"}
Patterns == {"k", "1"}
Callbacks == {"cb1"}
SubCallbacks == {"cb1", "cb2"}

Callers == 1..MaxCallers
BaseOrder == <<"A", "B">>
OpenFailed == "createEventbase rejected"
KeepAlive == 1   \* keepAliveSeconds, as configured in manager.test.ts; the clock counts seconds

\* The first two operation slots are callers of base A, the others of base B.

OpBase(o) == IF o <= 2 THEN "A" ELSE "B"

Null == <<>>
NoData == "none"
InstanceClosed == "instance is closed"
ProjectionMissing == "Failed to retrieve data after put operation"
StoreClosed == "store is closed"
TypeError == "Cannot read properties of undefined"
PurgeFailed == "jsm.streams.purge rejected"

VARIABLES
  log,              \* per JetStream stream: hist (every event published, by seq) and retained (seqs not purged)
  bases,            \* per base: lifecycle, local stores, projector position; hooked lists the
                    \* onMessage invocations since the start, projected every event applied to the stores
  ops,              \* per operation slot: a put or delete in flight
  sequenceWaiters,  \* the module-level Map<number, resolve[]>, in insertion order
  ret,              \* outcome of the most recent instance-method call
  mgr               \* the EventbaseManager: instances map, cleanup timer, emitted events, calls in flight

vars == <<log, bases, ops, sequenceWaiters, ret, mgr>>

\* ------------------------------------------------------ pure helpers ----
SetMax(S) == CHOOSE x \in S : \A y \in S : y <= x
SetMin(S) == CHOOSE x \in S : \A y \in S : x <= y

\* { id: event.id, ...event.data } with data = {val: v}
Doc(k, v) == [id |-> k, val |-> v]

LastSeq(l) == Len(l.hist)

\* msg.time: the log stamps every message; stamps grow with the sequence.
LogTime(s) == s

\* The retained PUT messages on subject `<stream>.<base64(k)>-put`.
PutSubject(l, k) == {s \in l.retained : l.hist[s].type = "PUT" /\ l.hist[s].id = k}

\* jsm.streams.purge(stream, {filter, keep}): keep = 0 stands for "no keep".
PurgedBy(l, k, keep) ==
  IF keep = 0 THEN PutSubject(l, k)
  ELSE {s \in PutSubject(l, k) : Cardinality({t \in PutSubject(l, k) : t > s}) >= keep}

Purge(l, k, keep) == [l EXCEPT !.retained = @ \ PurgedBy(l, k, keep)]

Publish(l, e) == [l EXCEPT !.hist = Append(@, e), !.retained = @ \cup {Len(l.hist) + 1}]

\* config.streamName of base b, and the stream it names.
StreamOf(b) == bases[b].stream
LogOf(b) == log[StreamOf(b)]
\* The stream every base is bound to unless it is created on another one.
Main == log["S1"]
PublishOn(b, e) == [log EXCEPT ![StreamOf(b)] = Publish(@, e)]
PurgeOn(b, k, keep) == [log EXCEPT ![StreamOf(b)] = Purge(@, k, keep)]

\* get(id, db, metaDb): null unless both the document and its metadata exist.
Get(b, k) ==
  IF k \in DOMAIN bases[b].db /\ k \in DOMAIN bases[b].meta
  THEN <<[meta |-> bases[b].meta[k], data |-> bases[b].db[k]]>>
  ELSE Null

\* db.read(id): the document, or nothing.
Data(b, k) == IF k \in DOMAIN bases[b].db THEN <<bases[b].db[k]>> ELSE Null

\* instance.get: the document decides; the metadata is read afterwards.
InstanceGetResult(b, k) ==
  IF k \in DOMAIN bases[b].db
  THEN <<[meta |-> IF k \in DOMAIN bases[b].meta THEN <<bases[b].meta[k]>> ELSE Null,
          data |-> bases[b].db[k]]>>
  ELSE Null

\* Mutant of UpdateMetaData: the entry is written anew on every PUT.
UpdateMetaDataAnew(m, k, time) ==
  [x \in DOMAIN m \cup {k} |->
     IF x = k THEN [dateCreated |-> time, dateModified |-> time, changes |-> 1]
     ELSE m[x]]

\* updateMetaData(id, time, metaDb)
UpdateMetaData(m, k, time) ==
  IF k \in DOMAIN m
  THEN [m EXCEPT ![k] = [@ EXCEPT !.dateModified = time, !.changes = @ + 1]]
  ELSE [x \in DOMAIN m \cup {k} |->
          IF x = k THEN [dateCreated |-> time, dateModified |-> time, changes |-> 1]
          ELSE m[x]]

\* Mutant of MetaRemove: the DELETE branch leaves the MetaData entry.
MetaKept(m, k) == m

\* metaDb.remove(event.id)
MetaRemove(m, k) == [x \in DOMAIN m \ {k} |-> m[x]]

Upsert(d, k, doc) == [x \in DOMAIN d \cup {k} |-> IF x = k THEN doc ELSE d[x]]
Remove(d, k) == [x \in DOMAIN d \ {k} |-> d[x]]

\* ----------------------------------------------------- sequenceWaiters ----
WaiterKeys(w) == {w[i].seq : i \in 1..Len(w)}

\* waitForStream(seq) for the resolve callback of operation o.
WaitForStream(w, seq, o) ==
  LET w1 == IF Len(w) = 0 \/ SetMax(WaiterKeys(w)) < seq
            THEN Append(w, [seq |-> seq, cbs |-> <<>>])
            ELSE w
      hits == {i \in 1..Len(w1) : w1[i].seq <= seq}
  IN IF hits = {} THEN w1
     ELSE [w1 EXCEPT ![SetMin(hits)].cbs = Append(@, o)]

\* The release loop of replayEvents: the leading entries with waitSeq <= seq.
ReleasePrefix(w, seq) ==
  IF \E i \in 1..Len(w) : w[i].seq > seq
  THEN SetMin({i \in 1..Len(w) : w[i].seq > seq}) - 1
  ELSE Len(w)

Released(w, seq) ==
  {o \in OpIds : \E i \in 1..ReleasePrefix(w, seq) :
                   \E j \in 1..Len(w[i].cbs) : w[i].cbs[j] = o}

AfterRelease(w, seq) == SubSeq(w, ReleasePrefix(w, seq) + 1, Len(w))

\* ------------------------------------------------------- checkpoint value ----
\* A string is the sequence of its characters.  The settings document read
\* under seqKey is <<>> when there is none and <<value>> otherwise.
Digits == <<"0", "1", "2", "3", "4", "5", "6", "7", "8", "9">>
IsDigit(c) == \E i \in 1..Len(Digits) : Digits[i] = c
DigitVal(c) == (CHOOSE i \in 1..Len(Digits) : Digits[i] = c) - 1

\* seq.toString(): the decimal digits of a natural number.
RECURSIVE SeqToString(_)
SeqToString(n) ==
  IF n < Len(Digits) THEN <<Digits[n + 1]>>
  ELSE SeqToString(n \div Len(Digits)) \o <<Digits[(n % Len(Digits)) + 1]>>

\* The digits a string starts with: parseInt stops at the first character
\* that is not a digit.
RECURSIVE LeadingDigits(_)
LeadingDigits(str) ==
  IF str = <<>> \/ ~IsDigit(Head(str)) THEN <<>>
  ELSE <<Head(str)>> \o LeadingDigits(Tail(str))

RECURSIVE Decimal(_)
Decimal(ds) ==
  IF ds = <<>> THEN 0
  ELSE Decimal(SubSeq(ds, 1, Len(ds) - 1)) * Len(Digits) + DigitVal(ds[Len(ds)])

\* parseInt(str, 10) on unsigned text: <<>> stands for NaN, <<n>> for n.
ParseInt(str) ==
  IF LeadingDigits(str) = <<>> THEN <<>> ELSE <<Decimal(LeadingDigits(str))>>

\* lastProcessedSeq = parseInt(seqStr?.value, 10); NaN becomes 0.
ReadCheckpoint(doc) ==
  IF doc = <<>> \/ ParseInt(doc[1]) = <<>> THEN 0 ELSE ParseInt(doc[1])[1]

\* ---------------------------------------------------------------- Init ----
IdleOp == [kind |-> "none", key |-> "k1", val |-> NoData, pc |-> "idle", seq |-> 0,
           result |-> Null, conc |-> FALSE]

NewBase == [stream |-> "S1", status |-> "off", closed |-> FALSE, ready |-> FALSE,
            db |-> <<>>, meta |-> <<>>, seqStr |-> <<>>, checkpoint |-> 0,
            targetSeq |-> 0, cursor |-> 1, pc |-> "idle", cur |-> 0, oldData |-> Null,
            applied |-> {},
            subscriptions |-> <<>>, activeSubscriptions |-> 0,
            handles |-> <<>>, delivered |-> <<>>, lastAccessed |-> 0,
            startSeq |-> 1, hooked |-> <<>>, projected |-> <<>>, crashes |-> 0,
            fault |-> "none"]

\* ret describes what the step that led to the current state handed to a
\* caller: nothing (op = "none"), a returned value, or a thrown error.
NoRet == [op |-> "none", base |-> "none", key |-> "none", val |-> NoData,
          error |-> "none", result |-> Null, conc |-> FALSE]

Returned(o, op, res) ==
  [op |-> op, base |-> OpBase(o), key |-> ops[o].key, val |-> ops[o].val,
   error |-> "none", result |-> res, conc |-> ops[o].conc]

Thrown(o, op, err) ==
  [op |-> op, base |-> OpBase(o), key |-> ops[o].key, val |-> ops[o].val,
   error |-> err, result |-> Null, conc |-> ops[o].conc]

\* createEventbase on an empty stream: checkpoint 0, last_seq 0, ready at once.
OpenOnEmpty == [NewBase EXCEPT !.status = "open", !.ready = TRUE]

\* ---------------------------------------------------- manager state ----
\* An async call of the manager that is suspended at an await.
IdleCall == [pc |-> "idle", name |-> "none", inst |-> "none"]
IdleSweep == [pc |-> "idle", now |-> 0, todo |-> <<>>, how |-> "none"]
IdleCloseAll == [pc |-> "idle", jobs |-> <<>>]

\* new EventbaseManager(config): instances = {}, cleanupInterval = null, no
\* event emitted.  instances keeps insertion order, as Object.entries reads it;
\* inst names the base object (or the promise of it) held under the name.
\* created lists the createEventbase invocations, now is Date.now().
NewManager ==
  [instances |-> <<>>, cleanupInterval |-> FALSE, emitted |-> <<>>, created |-> <<>>,
   now |-> 0,
   calls |-> [c \in Callers |-> IdleCall],
   sweep |-> IdleSweep,
   closeAll |-> IdleCloseAll]

Init ==
  /\ log = [s \in Streams |-> [hist |-> <<>>, retained |-> {}]]
  /\ bases = [b \in Bases |-> IF b = "A" THEN OpenOnEmpty ELSE NewBase]
  /\ ops = [o \in OpIds |-> IdleOp]
  /\ sequenceWaiters = <<>>
  /\ ret = NoRet
  /\ mgr = NewManager

\* ------------------------------------------------------------ lifecycle ----
InFlight(o) == ops[o].pc \in {"published", "waiting", "resolved", "read"}
SlotFree(o) == ops[o].pc = "idle"

\* A call takes the first free slot of its base (the slots are interchangeable).
NextSlot(o) ==
  /\ SlotFree(o)
  /\ \A p \in OpIds : (p < o /\ OpBase(p) = OpBase(o)) => ~SlotFree(p)

\* Mutant of ReadyAtStart: ready is signalled at once in every case.
ReadyAlways(cp, target) == TRUE

\* if (targetSeq === 0 || lastProcessedSeq >= targetSeq) resolve()
ReadyAtStart(cp, target) == target = 0 \/ cp >= target

\* Mutant of ConsumerStart: the consumer replays the stream from its first message.
ConsumerStartAll(cp) == 1

\* js.consumers.get(streamName, { opt_start_seq: lastProcessedSeq + 1 })
ConsumerStart(cp) == cp + 1

\* createEventbase / replayEvents start-up (index.ts 43-87, 245-266): the
\* checkpoint is read, last_seq is captured, the consumer starts at checkpoint + 1.
StartOn(b, s) ==
  LET cp == ReadCheckpoint(bases[b].seqStr)
      target == LastSeq(log[s])
  IN [bases[b] EXCEPT !.stream = s,
                      !.status = "open",
                      !.closed = FALSE,
                      !.targetSeq = target,
                      !.ready = ReadyAtStart(cp, target),
                      !.cursor = ConsumerStart(cp),
                      !.startSeq = cp + 1,
                      !.hooked = <<>>,
                      !.pc = "idle",
                      !.lastAccessed = mgr.now]

CreateEventbase(b) ==
  /\ bases[b].status = "off"
  /\ bases' = [bases EXCEPT ![b] = StartOn(b, StreamOf(b))]
  /\ ret' = NoRet
  /\ UNCHANGED <<log, ops, sequenceWaiters>>
  /\ UNCHANGED mgr

\* createEventbase with config.streamName = s.
CreateEventbaseOn(b, s) ==
  /\ bases[b].status = "off"
  /\ bases' = [bases EXCEPT ![b] = StartOn(b, s)]
  /\ ret' = NoRet
  /\ UNCHANGED <<log, ops, sequenceWaiters>>
  /\ UNCHANGED mgr

\* The calls left suspended on an instance that is gone: their resolve
\* callbacks stay in the map, and nobody follows them any more (op 0).
Orphan(w, b) ==
  [i \in 1..Len(w) |->
     [w[i] EXCEPT !.cbs = [j \in 1..Len(w[i].cbs) |->
                             IF w[i].cbs[j] \in OpIds /\ OpBase(w[i].cbs[j]) = b
                             THEN 0 ELSE w[i].cbs[j]]]]

\* What a new createEventbase finds of base b: the three stores under dbPath;
\* the instance state (subscriptions, counters) starts afresh.
Stores(b) ==
  [NewBase EXCEPT !.stream = bases[b].stream,
                  !.db = bases[b].db, !.meta = bases[b].meta,
                  !.seqStr = bases[b].seqStr,
                  !.checkpoint = bases[b].checkpoint,
                  !.applied = bases[b].applied, !.projected = bases[b].projected,
                  !.crashes = bases[b].crashes]

\* The process is killed: every instance in it and the sequenceWaiters map are
\* gone, with whatever call was in flight; the stores keep what was written.
Crash ==
  /\ \E b \in Bases : bases[b].status \in {"open", "closing"}
  /\ \A b \in Bases : bases[b].crashes < MaxCrashes
  /\ bases' = [b \in Bases |->
                 IF bases[b].status \in {"open", "closing"}
                 THEN [bases[b] EXCEPT !.status = "crashed", !.crashes = @ + 1]
                 ELSE bases[b]]
  /\ ops' = [o \in OpIds |-> IdleOp]
  /\ sequenceWaiters' = <<>>
  /\ ret' = NoRet
  /\ UNCHANGED <<log, mgr>>

\* createEventbase again on the stream and dbPath of a base that was closed,
\* or whose process was killed (index.ts 43-87, 245-266).
Reopen(b) ==
  /\ bases[b].status \in {"closed", "crashed"}
  /\ LET old == [bases EXCEPT ![b] = Stores(b)]
         cp == ReadCheckpoint(old[b].seqStr)
         target == LastSeq(log[old[b].stream])
     IN bases' = [old EXCEPT ![b].status = "open",
                             ![b].targetSeq = target,
                             ![b].ready = ReadyAtStart(cp, target),
                             ![b].cursor = ConsumerStart(cp),
                             ![b].startSeq = cp + 1,
                             ![b].lastAccessed = mgr.now]
  /\ ops' = [o \in OpIds |-> IF OpBase(o) = b THEN IdleOp ELSE ops[o]]
  /\ sequenceWaiters' = Orphan(sequenceWaiters, b)
  /\ ret' = NoRet
  /\ UNCHANGED <<log, mgr>>

\* updateLastAccessed: lastAccessed = Date.now()
UpdateLastAccessed(b) == [bases EXCEPT ![b].lastAccessed = mgr.now]

\* The instance exists for callers once createEventbase has returned.
HasInstance(b) == bases[b].ready /\ bases[b].status \in {"open", "closing", "closed"}

\* ---------------------------------------------------------- subscribers ----
\* Mutant of KeyMatchesFilter: every filter matches every key.
KeyMatchesAny(key, filter) == TRUE

\* keyMatchesFilter: new RegExp('^' + filter.replace('*', '.*') + '$').test(key)
KeyMatchesFilter(key, filter) ==
  IF filter = "k*" THEN key \in {"k1", "k2"} ELSE key = filter

\* callbacks.forEach(callback => callback(key, data?.data, data?.meta || null, event))
Calls(entry, call) ==
  [j \in 1..Len(entry.cbs) |-> [call EXCEPT !.filter = entry.filter, !.cb = entry.cbs[j]]]

\* notifySubscribers: the callback invocations, in the order they are made.
RECURSIVE NotifySubscribers(_, _)
NotifySubscribers(subs, call) ==
  IF subs = <<>> THEN <<>>
  ELSE (IF KeyMatchesFilter(call.key, Head(subs).filter) THEN Calls(Head(subs), call) ELSE <<>>)
         \o NotifySubscribers(Tail(subs), call)

\* Mutant of Deliver: the invocations of an event overtake the earlier ones.
DeliverOvertaking(earlier, calls) == calls \o earlier

\* The callbacks run synchronously inside the projection loop, so the
\* invocations of one event follow those of every event handled before.
Deliver(earlier, calls) == earlier \o calls

\* The arguments of one invocation for event e at sequence s on base b: PUT
\* passes the result of get() taken after the writes, DELETE passes null.
Call(b, s, e, newMeta) ==
  [seq |-> s, type |-> e.type, key |-> e.id, filter |-> "none", cb |-> "none",
   data |-> IF e.type = "PUT" THEN <<bases[b].db[e.id]>> ELSE Null,
   meta |-> IF e.type = "PUT" THEN <<newMeta[e.id]>> ELSE Null,
   oldData |-> bases[b].oldData]

\* ------------------------------------------------------------ projector ----
HasNext(b) == \E s \in LogOf(b).retained : s >= bases[b].cursor
NextMsg(b) == SetMin({s \in LogOf(b).retained : s >= bases[b].cursor})

\* The highest sequence the projector of b has written to db and meta.
Projected(b) == IF bases[b].pc = "released" THEN bases[b].cur ELSE bases[b].checkpoint

\* for await (msg): onMessage, oldData = db.read, then db.upsert / db.remove.
ProjStore(b) ==
  /\ bases[b].status = "open"
  /\ bases[b].pc = "idle"
  /\ HasNext(b)
  /\ LET s == NextMsg(b)
         e == LogOf(b).hist[s]
         old == IF e.id \in DOMAIN bases[b].db THEN <<bases[b].db[e.id]>> ELSE Null
     IN bases' = [bases EXCEPT ![b].cur = s,
                               ![b].cursor = s + 1,
                               ![b].hooked = Append(@, s),
                               ![b].oldData = old,
                               ![b].db = IF e.type = "PUT"
                                         THEN Upsert(@, e.id, Doc(e.id, e.data))
                                         ELSE Remove(@, e.id),
                               ![b].pc = "stored"]
  /\ ret' = NoRet
  /\ UNCHANGED <<log, ops, sequenceWaiters>>
  /\ UNCHANGED mgr

\* updateMetaData / metaDb.remove, notifySubscribers, then the release loop.
ProjMetaRelease(b) ==
  /\ bases[b].pc = "stored"
  /\ LET s == bases[b].cur
         e == LogOf(b).hist[s]
         rel == Released(sequenceWaiters, s)
         newMeta == IF e.type = "PUT"
                    THEN UpdateMetaData(bases[b].meta, e.id, LogTime(s))
                    ELSE MetaRemove(bases[b].meta, e.id)
     IN /\ bases' = [bases EXCEPT ![b].meta = newMeta,
                                  ![b].delivered =
                                     Deliver(@, NotifySubscribers(bases[b].subscriptions,
                                                                  Call(b, s, e, newMeta))),
                                  ![b].oldData = Null,
                                  ![b].applied = @ \cup {s},
                                  ![b].projected = Append(@, s),
                                  ![b].pc = "released"]
        /\ ops' = [o \in OpIds |->
                     IF o \in rel THEN [ops[o] EXCEPT !.pc = "resolved"] ELSE ops[o]]
        /\ sequenceWaiters' = AfterRelease(sequenceWaiters, s)
  /\ ret' = NoRet
  /\ UNCHANGED log
  /\ UNCHANGED mgr

\* settingsDb.upsert(seqKey), msg.ack(), resolve ready when seq >= targetSeq.
ProjCheckpoint(b) ==
  /\ bases[b].pc = "released"
  /\ bases' = [bases EXCEPT ![b].seqStr = <<SeqToString(bases[b].cur)>>,
                            ![b].checkpoint = ReadCheckpoint(<<SeqToString(bases[b].cur)>>),
                            ![b].ready = @ \/ bases[b].cur >= bases[b].targetSeq,
                            ![b].cur = 0,
                            ![b].pc = "idle"]
  /\ ret' = NoRet
  /\ UNCHANGED <<log, ops, sequenceWaiters>>
  /\ UNCHANGED mgr

\* config.onMessage throws: the call is not guarded, so the exception leaves
\* the for-await loop through the catch of replayEvents and the processing
\* task ends (index.ts 270-274, 312-319).
ProjHookThrows(b) ==
  /\ bases[b].status = "open"
  /\ bases[b].pc = "idle"
  /\ HasNext(b)
  /\ bases' = [bases EXCEPT ![b].cur = NextMsg(b),
                            ![b].cursor = NextMsg(b) + 1,
                            ![b].hooked = Append(@, NextMsg(b)),
                            ![b].fault = "hook",
                            ![b].pc = "failed"]
  /\ ret' = NoRet
  /\ UNCHANGED <<log, ops, sequenceWaiters, mgr>>

\* A local-store operation throws while an event is projected: db.upsert or
\* db.remove, updateMetaData or metaDb.remove, or settingsDb.upsert.  The
\* exception ends the processing task; what was written before stays, the
\* message is not acknowledged (index.ts 279-306, 312-319).
ProjStoreThrows(b) ==
  /\ bases[b].status = "open"
  /\ \/ /\ bases[b].pc = "idle"
        /\ HasNext(b)
        /\ bases' = [bases EXCEPT ![b].cur = NextMsg(b),
                                  ![b].cursor = NextMsg(b) + 1,
                                  ![b].hooked = Append(@, NextMsg(b)),
                                  ![b].fault = "store",
                                  ![b].pc = "failed"]
     \/ /\ bases[b].pc \in {"stored", "released"}
        /\ bases' = [bases EXCEPT ![b].fault = "store", ![b].pc = "failed"]
  /\ ret' = NoRet
  /\ UNCHANGED <<log, ops, sequenceWaiters, mgr>>

\* ----------------------------------------------------------- put / delete ----
\* Every operation on key k that overlaps another one is marked concurrent.
StartOp(o, rec) ==
  [x \in OpIds |->
     IF x = o THEN [rec EXCEPT !.conc = \E y \in OpIds \ {o} : InFlight(y) /\ ops[y].key = rec.key]
     ELSE IF InFlight(x) /\ ops[x].key = rec.key THEN [ops[x] EXCEPT !.conc = TRUE]
     ELSE ops[x]]

ThrowClosed(b, op) == [NoRet EXCEPT !.op = op, !.base = b, !.error = InstanceClosed]

\* instance.put up to js.publish (index.ts 109-127, 406-416).
InstancePut(o, k, v) ==
  /\ HasInstance(OpBase(o))
  /\ NextSlot(o)
  /\ IF bases[OpBase(o)].closed
     THEN /\ ret' = ThrowClosed(OpBase(o), "put")
          /\ UNCHANGED <<log, bases, ops, sequenceWaiters>>
     ELSE /\ LastSeq(LogOf(OpBase(o))) < MaxSeq
          /\ log' = PublishOn(OpBase(o), [type |-> "PUT", id |-> k, data |-> v])
          /\ ops' = StartOp(o, [IdleOp EXCEPT !.kind = "put", !.key = k, !.val = v,
                                              !.pc = "published", !.seq = LastSeq(LogOf(OpBase(o))) + 1])
          /\ ret' = NoRet
          /\ bases' = UpdateLastAccessed(OpBase(o))
          /\ UNCHANGED sequenceWaiters
  /\ UNCHANGED mgr

\* instance.delete up to js.publish (index.ts 129-144, 448-456).
InstanceDelete(o, k) ==
  /\ HasInstance(OpBase(o))
  /\ NextSlot(o)
  /\ IF bases[OpBase(o)].closed
     THEN /\ ret' = ThrowClosed(OpBase(o), "delete")
          /\ UNCHANGED <<log, bases, ops, sequenceWaiters>>
     ELSE /\ LastSeq(LogOf(OpBase(o))) < MaxSeq
          /\ log' = PublishOn(OpBase(o), [type |-> "DELETE", id |-> k, data |-> NoData])
          /\ ops' = StartOp(o, [IdleOp EXCEPT !.kind = "del", !.key = k,
                                              !.pc = "published", !.seq = LastSeq(LogOf(OpBase(o))) + 1])
          /\ ret' = NoRet
          /\ bases' = UpdateLastAccessed(OpBase(o))
          /\ UNCHANGED sequenceWaiters
  /\ UNCHANGED mgr

\* The publish acknowledgement arrives: waitForStream(msg.seq).
AwaitBarrier(o) ==
  /\ ops[o].pc = "published"
  /\ sequenceWaiters' = WaitForStream(sequenceWaiters, ops[o].seq, o)
  /\ ops' = [ops EXCEPT ![o].pc = "waiting"]
  /\ ret' = NoRet
  /\ UNCHANGED <<log, bases>>
  /\ UNCHANGED mgr

\* put after the barrier: get(id, db, metaDb), throw when null (index.ts 420-423).
PutRead(o) ==
  /\ ops[o].kind = "put"
  /\ ops[o].pc = "resolved"
  /\ LET b == OpBase(o)
         r == Get(b, ops[o].key)
     IN IF bases[b].status = "closed"
        THEN /\ ops' = [ops EXCEPT ![o] = IdleOp]
             /\ ret' = Thrown(o, "put", StoreClosed)
        ELSE IF r = Null
        THEN /\ ops' = [ops EXCEPT ![o] = IdleOp]
             /\ ret' = Thrown(o, "put", ProjectionMissing)
        ELSE /\ ops' = [ops EXCEPT ![o].pc = "read", ![o].result = r]
             /\ ret' = NoRet
  /\ UNCHANGED <<log, bases, sequenceWaiters>>
  /\ UNCHANGED mgr

\* Mutant of PutPurge: the purge request without `keep: 1`.
PutPurgeNoKeep(o) ==
  /\ ops[o].kind = "put"
  /\ ops[o].pc = "read"
  /\ IF bases[OpBase(o)].status = "closed"
     THEN /\ ret' = Thrown(o, "put", StoreClosed)
          /\ UNCHANGED log
     ELSE /\ log' = PurgeOn(OpBase(o), ops[o].key, 0)
          /\ ret' = Returned(o, "put", ops[o].result)
  /\ ops' = [ops EXCEPT ![o] = IdleOp]
  /\ UNCHANGED <<bases, sequenceWaiters>>
  /\ UNCHANGED mgr

\* put: purge the subject keeping one message, return the result (index.ts 432-437).
PutPurge(o) ==
  /\ ops[o].kind = "put"
  /\ ops[o].pc = "read"
  /\ IF bases[OpBase(o)].status = "closed"
     THEN /\ ret' = Thrown(o, "put", StoreClosed)
          /\ UNCHANGED log
     ELSE /\ log' = PurgeOn(OpBase(o), ops[o].key, 1)
          /\ ret' = Returned(o, "put", ops[o].result)
  /\ ops' = [ops EXCEPT ![o] = IdleOp]
  /\ UNCHANGED <<bases, sequenceWaiters>>
  /\ UNCHANGED mgr

\* put: the purge request is rejected; the await is not guarded (index.ts 432-437).
PutPurgeFails(o) ==
  /\ ops[o].kind = "put"
  /\ ops[o].pc = "read"
  /\ bases[OpBase(o)].status # "closed"
  /\ ret' = Thrown(o, "put", PurgeFailed)
  /\ ops' = [ops EXCEPT ![o] = IdleOp]
  /\ UNCHANGED <<log, bases, sequenceWaiters, mgr>>

\* delete after the barrier: purge every PUT of the key (index.ts 457-461).
DelPurge(o) ==
  /\ ops[o].kind = "del"
  /\ ops[o].pc = "resolved"
  /\ IF bases[OpBase(o)].status = "closed"
     THEN /\ ret' = Thrown(o, "delete", StoreClosed)
          /\ UNCHANGED log
     ELSE /\ log' = PurgeOn(OpBase(o), ops[o].key, 0)
          /\ ret' = Returned(o, "delete", <<Cardinality(PurgedBy(LogOf(OpBase(o)), ops[o].key, 0))>>)
  /\ ops' = [ops EXCEPT ![o] = IdleOp]
  /\ UNCHANGED <<bases, sequenceWaiters>>
  /\ UNCHANGED mgr

\* ------------------------------------------------- other instance methods ----
\* String.prototype.match(pattern) on the ids: the keys a pattern matches.
MatchingKeys(p) == IF p = "k" THEN {"k1", "k2"} ELSE IF p = "1" THEN {"k1"} ELSE {}

ReadReturn(b, op, res) == [NoRet EXCEPT !.op = op, !.base = b, !.result = res]

\* instance.get (index.ts 92-107)
InstanceGet(b, k) ==
  /\ HasInstance(b)
  /\ ret' = IF bases[b].closed THEN ThrowClosed(b, "get")
            ELSE [ReadReturn(b, "get", InstanceGetResult(b, k)) EXCEPT !.key = k]
  /\ bases' = IF bases[b].closed THEN bases ELSE UpdateLastAccessed(b)
  /\ UNCHANGED <<log, ops, sequenceWaiters>>
  /\ UNCHANGED mgr

\* instance.get step by step, as the projector may run at each await:
\* the closed check, updateLastAccessed and db.read(id) ...
GetReadDb(o, k) ==
  /\ HasInstance(OpBase(o))
  /\ NextSlot(o)
  /\ IF bases[OpBase(o)].closed
     THEN /\ ret' = ThrowClosed(OpBase(o), "get")
          /\ UNCHANGED <<bases, ops>>
     ELSE /\ ops' = [ops EXCEPT ![o] = [IdleOp EXCEPT !.kind = "get", !.key = k,
                                                      !.pc = "gotdata",
                                                      !.result = Data(OpBase(o), k)]]
          /\ bases' = UpdateLastAccessed(OpBase(o))
          /\ ret' = NoRet
  /\ UNCHANGED <<log, sequenceWaiters>>
  /\ UNCHANGED mgr

\* ... then, after publishStats, result ? { meta: await metaDb.read(id), data: result } : null
GetReadMeta(o) ==
  /\ ops[o].kind = "get"
  /\ ops[o].pc = "gotdata"
  /\ LET b == OpBase(o)
         k == ops[o].key
         res == IF ops[o].result = Null THEN Null
                ELSE <<[meta |-> IF k \in DOMAIN bases[b].meta
                                 THEN <<bases[b].meta[k]>> ELSE Null,
                        data |-> ops[o].result[1]]>>
     IN ret' = [ReadReturn(b, "get", res) EXCEPT !.key = k]
  /\ ops' = [ops EXCEPT ![o] = IdleOp]
  /\ UNCHANGED <<log, bases, sequenceWaiters>>
  /\ UNCHANGED mgr

\* instance.keys (index.ts 146-161)
InstanceKeys(b, p) ==
  /\ HasInstance(b)
  /\ ret' = IF bases[b].closed THEN ThrowClosed(b, "keys")
            ELSE ReadReturn(b, "keys", <<DOMAIN bases[b].db \cap MatchingKeys(p)>>)
  /\ bases' = IF bases[b].closed THEN bases ELSE UpdateLastAccessed(b)
  /\ UNCHANGED <<log, ops, sequenceWaiters>>
  /\ UNCHANGED mgr

\* instance.query (index.ts 195-210), for the query object {val: v}
InstanceQuery(b, v) ==
  /\ HasInstance(b)
  /\ ret' = IF bases[b].closed THEN ThrowClosed(b, "query")
            ELSE ReadReturn(b, "query",
                            <<{bases[b].db[k] : k \in {x \in DOMAIN bases[b].db : bases[b].db[x].val = v}}>>)
  /\ bases' = IF bases[b].closed THEN bases ELSE UpdateLastAccessed(b)
  /\ UNCHANGED <<log, ops, sequenceWaiters>>
  /\ UNCHANGED mgr

\* subscriptions: Map<filter, callback[]> in insertion order.
FilterIndex(subs, f) == {i \in 1..Len(subs) : subs[i].filter = f}

Register(subs, f, cb) ==
  LET s1 == IF FilterIndex(subs, f) = {} THEN Append(subs, [filter |-> f, cbs |-> <<>>]) ELSE subs
  IN [s1 EXCEPT ![SetMin(FilterIndex(s1, f))].cbs = Append(@, cb)]

\* The dispose handle subscribe returns: a closure over (filter, callback).
\* `ran` records whether it was ever called.
Handle(b, f, cb) == [filter |-> f, cb |-> cb, ran |-> FALSE]

\* Mutant of InstanceSubscribe: the `instance.closed` check is missing.
InstanceSubscribeUnguarded(b, f, cb) ==
  /\ HasInstance(b)
  /\ Len(bases[b].handles) < MaxSubs
  /\ bases' = [bases EXCEPT ![b].subscriptions = Register(@, f, cb),
                            ![b].activeSubscriptions = @ + 1,
                            ![b].handles = Append(@, Handle(b, f, cb))]
  /\ ret' = ReadReturn(b, "subscribe", Null)
  /\ UNCHANGED <<log, ops, sequenceWaiters>>
  /\ UNCHANGED mgr

\* instance.subscribe (index.ts 163-181)
InstanceSubscribe(b, f, cb) ==
  /\ HasInstance(b)
  /\ IF bases[b].closed
     THEN /\ ret' = ThrowClosed(b, "subscribe")
          /\ UNCHANGED bases
     ELSE /\ Len(bases[b].handles) < MaxSubs
          /\ bases' = [bases EXCEPT ![b].subscriptions = Register(@, f, cb),
                                    ![b].activeSubscriptions = @ + 1,
                                    ![b].handles = Append(@, Handle(b, f, cb))]
          /\ ret' = ReadReturn(b, "subscribe", Null)
  /\ UNCHANGED <<log, ops, sequenceWaiters>>
  /\ UNCHANGED mgr

\* Array.prototype.splice(indexOf(cb), 1): the first occurrence is removed.
RemoveFirst(cbs, cb) ==
  LET hits == {i \in 1..Len(cbs) : cbs[i] = cb}
  IN IF hits = {} THEN cbs
     ELSE SubSeq(cbs, 1, SetMin(hits) - 1) \o SubSeq(cbs, SetMin(hits) + 1, Len(cbs))

\* The callback list of the filter without the first cb; an empty list is
\* deleted from the map.
Unregister(subs, f, cb) ==
  LET i == SetMin(FilterIndex(subs, f))
      left == RemoveFirst(subs[i].cbs, cb)
  IN IF left = <<>> THEN SubSeq(subs, 1, i - 1) \o SubSeq(subs, i + 1, Len(subs))
     ELSE [subs EXCEPT ![i].cbs = left]

\* The dispose handle returned by subscribe (index.ts 183-192).  It reads
\* subscriptions.get(filter)!, which is undefined once the filter is gone.
Dispose(b, h) ==
  /\ h \in 1..Len(bases[b].handles)
  /\ LET f == bases[b].handles[h].filter
         cb == bases[b].handles[h].cb
     IN IF FilterIndex(bases[b].subscriptions, f) = {}
        THEN /\ bases' = [bases EXCEPT ![b].handles[h].ran = TRUE]
             /\ ret' = [NoRet EXCEPT !.op = "dispose", !.base = b, !.error = TypeError]
        ELSE /\ bases' = [bases EXCEPT
                            ![b].subscriptions = Unregister(@, f, cb),
                            ![b].activeSubscriptions = IF @ - 1 > 0 THEN @ - 1 ELSE 0,
                            ![b].handles[h].ran = TRUE]
             /\ ret' = ReadReturn(b, "dispose", Null)
  /\ UNCHANGED <<log, ops, sequenceWaiters>>
  /\ UNCHANGED mgr

\* callbacks.forEach over the list of one filter while the callback `actor`,
\* the first time it is invoked, runs the dispose handle of `victim` under
\* the same filter: splice shortens the list forEach is walking, and forEach
\* goes on at the next index of the list as it is now.
RECURSIVE ForEachDisposing(_, _, _, _, _)
ForEachDisposing(cbs, i, actor, victim, fired) ==
  IF i > Len(cbs) THEN <<>>
  ELSE LET acts == cbs[i] = actor /\ ~fired
           left == IF acts THEN RemoveFirst(cbs, victim) ELSE cbs
       IN <<cbs[i]>> \o ForEachDisposing(left, i + 1, actor, victim, fired \/ acts)

\* notifySubscribers when a callback under filter f disposes during the walk.
RECURSIVE NotifyDisposing(_, _, _, _, _)
NotifyDisposing(subs, call, f, actor, victim) ==
  IF subs = <<>> THEN <<>>
  ELSE (IF KeyMatchesFilter(call.key, Head(subs).filter)
        THEN IF Head(subs).filter = f
             THEN LET inv == ForEachDisposing(Head(subs).cbs, 1, actor, victim, FALSE)
                  IN [j \in 1..Len(inv) |-> [call EXCEPT !.filter = f, !.cb = inv[j]]]
             ELSE Calls(Head(subs), call)
        ELSE <<>>)
         \o NotifyDisposing(Tail(subs), call, f, actor, victim)

\* The projector step of ProjMetaRelease in which the subscriber callback
\* `actor`, registered under the filter of handle h, calls handle h when it
\* is notified (index.ts 279-303, 358-378, 183-192).
ProjMetaReleaseDisposing(b, actor, h) ==
  /\ bases[b].pc = "stored"
  /\ h \in 1..Len(bases[b].handles)
  /\ LET s == bases[b].cur
         e == LogOf(b).hist[s]
         f == bases[b].handles[h].filter
         victim == bases[b].handles[h].cb
         rel == Released(sequenceWaiters, s)
         newMeta == IF e.type = "PUT"
                    THEN UpdateMetaData(bases[b].meta, e.id, LogTime(s))
                    ELSE MetaRemove(bases[b].meta, e.id)
     IN /\ FilterIndex(bases[b].subscriptions, f) # {}
        /\ KeyMatchesFilter(e.id, f)
        /\ \E j \in 1..Len(bases[b].subscriptions[SetMin(FilterIndex(bases[b].subscriptions, f))].cbs) :
              bases[b].subscriptions[SetMin(FilterIndex(bases[b].subscriptions, f))].cbs[j] = actor
        /\ bases' = [bases EXCEPT ![b].meta = newMeta,
                                  ![b].delivered =
                                     Deliver(@, NotifyDisposing(bases[b].subscriptions,
                                                                Call(b, s, e, newMeta),
                                                                f, actor, victim)),
                                  ![b].subscriptions = Unregister(@, f, victim),
                                  ![b].activeSubscriptions = IF @ - 1 > 0 THEN @ - 1 ELSE 0,
                                  ![b].handles[h].ran = TRUE,
                                  ![b].oldData = Null,
                                  ![b].applied = @ \cup {s},
                                  ![b].projected = Append(@, s),
                                  ![b].pc = "released"]
        /\ ops' = [o \in OpIds |->
                     IF o \in rel THEN [ops[o] EXCEPT !.pc = "resolved"] ELSE ops[o]]
        /\ sequenceWaiters' = AfterRelease(sequenceWaiters, s)
  /\ ret' = NoRet
  /\ UNCHANGED log
  /\ UNCHANGED mgr

\* instance.close up to messages.close() (index.ts 215-217, 324-325)
InstanceClose(b) ==
  /\ HasInstance(b)
  /\ bases[b].status = "open"
  /\ bases' = [bases EXCEPT ![b].closed = TRUE, ![b].status = "closing"]
  /\ ret' = NoRet
  /\ UNCHANGED <<log, ops, sequenceWaiters>>
  /\ UNCHANGED mgr

\* The rest of close once the projection loop has ended: consumer.delete, the
\* stores and the connection are closed, subscriptions.clear (index.ts 217-223).
CloseDone(b) ==
  /\ bases[b].status = "closing"
  /\ bases[b].pc = "idle"
  /\ bases' = [bases EXCEPT ![b].status = "closed", ![b].subscriptions = <<>>]
  /\ ret' = [NoRet EXCEPT !.op = "close", !.base = b]
  /\ UNCHANGED <<log, ops, sequenceWaiters>>
  /\ UNCHANGED mgr

\* -------------------------------------------------------------- manager ----
\* this.instances[streamName], as a lookup in the insertion-ordered map.
EntryIndex(insts, name) == {i \in 1..Len(insts) : insts[i].name = name}

Held(name) == EntryIndex(mgr.instances, name) # {}

InstanceOf(name) == mgr.instances[SetMin(EntryIndex(mgr.instances, name))].inst

\* this.instances[streamName] = value
SetEntry(insts, name, b) ==
  IF EntryIndex(insts, name) = {}
  THEN Append(insts, [name |-> name, inst |-> b])
  ELSE [insts EXCEPT ![SetMin(EntryIndex(insts, name))].inst = b]

\* delete this.instances[streamName]
DeleteEntry(insts, name) == SelectSeq(insts, LAMBDA e : e.name # name)

\* The base objects createEventbase has been asked for so far, and the next one.
Allocated == {mgr.created[i].inst : i \in 1..Len(mgr.created)}

FreshBase == BaseOrder[SetMin({i \in 1..Len(BaseOrder) : BaseOrder[i] \notin Allocated})]

Emit(event, name) == Append(mgr.emitted, [event |-> event, name |-> name])

\* The body of getStream's if: createEventbase is invoked and its promise is
\* stored, the cleanup timer is started, 'stream:opened' is emitted.
OpenEntry(m, name) ==
  [m EXCEPT !.instances = SetEntry(@, name, FreshBase),
            !.created = Append(@, [name |-> name, inst |-> FreshBase]),
            !.cleanupInterval = TRUE,
            !.emitted = Emit("stream:opened", name)]

Awaiting(m, c, name) ==
  [m EXCEPT !.calls[c] =
     [pc |-> "await", name |-> name,
      inst |-> m.instances[SetMin(EntryIndex(m.instances, name))].inst]]

\* Mutant of GetStream: the entry is opened without looking for one held.
GetStreamUnguarded(c, name) ==
  /\ mgr.calls[c].pc = "idle"
  /\ Allocated # Bases
  /\ mgr' = Awaiting(OpenEntry(mgr, name), c, name)
  /\ ret' = NoRet
  /\ UNCHANGED <<log, bases, ops, sequenceWaiters>>

\* getStream up to its await (manager.ts 182-199).
GetStream(c, name) ==
  /\ mgr.calls[c].pc = "idle"
  /\ IF Held(name)
     THEN mgr' = Awaiting(mgr, c, name)
     ELSE /\ Allocated # Bases
          /\ mgr' = Awaiting(OpenEntry(mgr, name), c, name)
  /\ ret' = NoRet
  /\ UNCHANGED <<log, bases, ops, sequenceWaiters>>

\* The promise of createEventbase is still pending for these.
PendingOpen(b, name) ==
  /\ bases[b].status = "off"
  /\ \E i \in 1..Len(mgr.created) : mgr.created[i] = [name |-> name, inst |-> b]

\* createEventbase rejects: a store or the NATS connection cannot be opened
\* (index.ts 44-48).
OpenFails(b) ==
  /\ \E name \in Streams : PendingOpen(b, name)
  /\ bases' = [bases EXCEPT ![b].status = "failed"]
  /\ ret' = NoRet
  /\ UNCHANGED <<log, ops, sequenceWaiters, mgr>>

\* getStream resumes: `const instance = await ...; return instance` (199-200).
GetStreamReturn(c) ==
  /\ mgr.calls[c].pc = "await"
  /\ \/ /\ HasInstance(mgr.calls[c].inst)
        /\ ret' = [NoRet EXCEPT !.op = "getStream", !.base = mgr.calls[c].inst,
                                !.key = mgr.calls[c].name]
     \/ /\ bases[mgr.calls[c].inst].status = "failed"
        /\ ret' = [NoRet EXCEPT !.op = "getStream", !.key = mgr.calls[c].name,
                                !.error = OpenFailed]
  /\ mgr' = [mgr EXCEPT !.calls[c] = IdleCall]
  /\ UNCHANGED <<log, bases, ops, sequenceWaiters>>

\* Time passes: Date.now() reads one second later.
Tick ==
  /\ mgr.now < MaxTime
  /\ mgr' = [mgr EXCEPT !.now = @ + 1]
  /\ ret' = NoRet
  /\ UNCHANGED <<log, bases, ops, sequenceWaiters>>

\* instance.close() is called: closed is set at once; the rest follows in
\* CloseDone.  On a base whose close has begun already nothing changes here.
CloseCalled(b) ==
  IF bases[b].status = "open"
  THEN [bases EXCEPT ![b].closed = TRUE, ![b].status = "closing"]
  ELSE bases

\* How a call of close() ends: the first call resolves; a further call stops
\* the stream and closes the stores and the connection a second time, which
\* the libraries may accept or reject.
CloseOutcomes(b) == IF bases[b].status = "open" THEN {"resolves"} ELSE {"resolves", "rejects"}

\* The setInterval callback starts: now is read once, the entries are listed
\* (manager.ts 151-154).
SweepStart ==
  /\ mgr.cleanupInterval
  /\ mgr.sweep.pc = "idle"
  /\ mgr.instances # <<>>
  /\ mgr' = [mgr EXCEPT !.sweep = [pc |-> "await", now |-> mgr.now,
                                   todo |-> mgr.instances, how |-> "none"]]
  /\ ret' = NoRet
  /\ UNCHANGED <<log, bases, ops, sequenceWaiters>>

\* The for loop moves to its next entry, or the callback ends.
SweepAdvance(sw) ==
  IF Len(sw.todo) > 1
  THEN [sw EXCEPT !.pc = "await", !.todo = Tail(@), !.how = "none"]
  ELSE IdleSweep

\* `await instanceOrPromise` resumes and the entry is examined; an idle base
\* without subscriptions has close() called (manager.ts 155-162).  A rejected
\* promise ends the callback: the await is outside the try.
SweepExamine ==
  /\ mgr.sweep.pc = "await"
  /\ LET b == Head(mgr.sweep.todo).inst
     IN \/ /\ bases[b].status = "failed"
           /\ mgr' = [mgr EXCEPT !.sweep = IdleSweep]
           /\ UNCHANGED bases
        \/ /\ HasInstance(b)
           /\ IF /\ mgr.sweep.now - bases[b].lastAccessed > KeepAlive
                 /\ bases[b].activeSubscriptions = 0
              THEN /\ bases' = CloseCalled(b)
                   /\ \E how \in CloseOutcomes(b) :
                        mgr' = [mgr EXCEPT !.sweep.pc = "closing", !.sweep.how = how]
              ELSE /\ mgr' = [mgr EXCEPT !.sweep = SweepAdvance(@)]
                   /\ UNCHANGED bases
  /\ ret' = NoRet
  /\ UNCHANGED <<log, ops, sequenceWaiters>>

\* `await instance.close()` resumes in the sweep: the entry under the name is
\* deleted and 'stream:closed' emitted, or the error is logged (163-169).
SweepClosed ==
  /\ mgr.sweep.pc = "closing"
  /\ LET e == Head(mgr.sweep.todo)
     IN \/ /\ mgr.sweep.how = "resolves"
           /\ bases[e.inst].status = "closed"
           /\ mgr' = [mgr EXCEPT !.instances = DeleteEntry(@, e.name),
                                 !.emitted = Emit("stream:closed", e.name),
                                 !.sweep = SweepAdvance(@)]
        \/ /\ mgr.sweep.how = "rejects"
           /\ mgr' = [mgr EXCEPT !.sweep = SweepAdvance(@)]
  /\ ret' = NoRet
  /\ UNCHANGED <<log, bases, ops, sequenceWaiters>>

\* closeAll up to its await: the timer is stopped and one async function per
\* entry is started (manager.ts 203-207).
CloseAllStart ==
  /\ mgr.closeAll.pc = "idle"
  /\ mgr' = [mgr EXCEPT !.cleanupInterval = FALSE,
                        !.closeAll = [pc |-> "running",
                                      jobs |-> [i \in 1..Len(mgr.instances) |->
                                                  [name |-> mgr.instances[i].name,
                                                   inst |-> mgr.instances[i].inst,
                                                   pc |-> "await", how |-> "none"]]]]
  /\ ret' = NoRet
  /\ UNCHANGED <<log, bases, ops, sequenceWaiters>>

\* One of closeAll's functions resumes from `await instanceOrPromise` and calls
\* close(), or catches the rejection of the open (manager.ts 207-209, 213-215).
CloseAllExamine(j) ==
  /\ mgr.closeAll.pc = "running"
  /\ j \in 1..Len(mgr.closeAll.jobs)
  /\ mgr.closeAll.jobs[j].pc = "await"
  /\ LET b == mgr.closeAll.jobs[j].inst
     IN \/ /\ bases[b].status = "failed"
           /\ mgr' = [mgr EXCEPT !.closeAll.jobs[j].pc = "done", !.closeAll.jobs[j].how = "threw"]
           /\ UNCHANGED bases
        \/ /\ HasInstance(b)
           /\ bases' = CloseCalled(b)
           /\ \E how \in CloseOutcomes(b) :
                mgr' = [mgr EXCEPT !.closeAll.jobs[j].pc = "closing", !.closeAll.jobs[j].how = how]
  /\ ret' = NoRet
  /\ UNCHANGED <<log, ops, sequenceWaiters>>

\* `await instance.close()` resumes in one of closeAll's functions:
\* 'stream:closed' is emitted, or the error is logged (manager.ts 209-215).
CloseAllClosed(j) ==
  /\ mgr.closeAll.pc = "running"
  /\ j \in 1..Len(mgr.closeAll.jobs)
  /\ mgr.closeAll.jobs[j].pc = "closing"
  /\ \/ /\ mgr.closeAll.jobs[j].how = "resolves"
        /\ bases[mgr.closeAll.jobs[j].inst].status = "closed"
        /\ mgr' = [mgr EXCEPT !.emitted = Emit("stream:closed", mgr.closeAll.jobs[j].name),
                              !.closeAll.jobs[j].pc = "done",
                              !.closeAll.jobs[j].how = "closed"]
     \/ /\ mgr.closeAll.jobs[j].how = "rejects"
        /\ mgr' = [mgr EXCEPT !.closeAll.jobs[j].pc = "done", !.closeAll.jobs[j].how = "threw"]
  /\ ret' = NoRet
  /\ UNCHANGED <<log, bases, ops, sequenceWaiters>>

AllJobsDone == \A j \in 1..Len(mgr.closeAll.jobs) : mgr.closeAll.jobs[j].pc = "done"

\* Mutant of CloseAllFinish: the map is left as it is.
CloseAllFinishKeepingMap ==
  /\ mgr.closeAll.pc = "running"
  /\ AllJobsDone
  /\ mgr' = [mgr EXCEPT !.closeAll = IdleCloseAll]
  /\ ret' = [NoRet EXCEPT !.op = "closeAll"]
  /\ UNCHANGED <<log, bases, ops, sequenceWaiters>>

\* `await Promise.all(closePromises)` resumes: this.instances = {} and closeAll
\* returns (manager.ts 218-220).
CloseAllFinish ==
  /\ mgr.closeAll.pc = "running"
  /\ AllJobsDone
  /\ mgr' = [mgr EXCEPT !.instances = <<>>, !.closeAll = IdleCloseAll]
  /\ ret' = [NoRet EXCEPT !.op = "closeAll"]
  /\ UNCHANGED <<log, bases, ops, sequenceWaiters>>

\* --------------------------------------------------------- specifications ----
\* Spec: base A alone on its stream, with concurrent put and delete calls.
Next ==
  \/ \E b \in Bases : ProjStore(b)
  \/ \E b \in Bases : ProjMetaRelease(b)
  \/ \E b \in Bases : ProjCheckpoint(b)
  \/ \E o \in OpIds, k \in Keys, v \in Vals : InstancePut(o, k, v)
  \/ \E o \in OpIds, k \in Keys : InstanceDelete(o, k)
  \/ \E o \in OpIds : AwaitBarrier(o)
  \/ \E o \in OpIds : PutRead(o)
  \/ \E o \in OpIds : PutPurge(o)
  \/ \E o \in OpIds : DelPurge(o)

Spec == Init /\ [][Next]_vars

\* SpecPair: base B is created at any moment on the stream of A, in the same
\* process (the sequenceWaiters map is shared), and reads while A writes.
NextPair ==
  \/ \E b \in Bases : CreateEventbase(b)
  \/ \E b \in Bases : ProjStore(b)
  \/ \E b \in Bases : ProjMetaRelease(b)
  \/ \E b \in Bases : ProjCheckpoint(b)
  \/ \E o \in OpIds, k \in Keys, v \in Vals : LastSeq(log["S1"]) < MaxSeqPair /\ InstancePut(o, k, v)
  \/ \E o \in OpIds, k \in Keys : LastSeq(log["S1"]) < MaxSeqPair /\ InstanceDelete(o, k)
  \/ \E o \in OpIds : AwaitBarrier(o)
  \/ \E o \in OpIds : PutRead(o)
  \/ \E o \in OpIds : PutPurge(o)
  \/ \E o \in OpIds : DelPurge(o)

SpecPair == Init /\ [][NextPair]_vars

\* SpecCold: A writes; once every call has returned, B is created on an empty
\* local store and replays the compacted log; nothing is written afterwards.
Writing == bases["B"].status = "off"

NextCold ==
  \/ \E b \in Bases : (\A o \in OpIds : SlotFree(o)) /\ CreateEventbase(b)
  \/ \E b \in Bases : ProjStore(b)
  \/ \E b \in Bases : ProjMetaRelease(b)
  \/ \E b \in Bases : ProjCheckpoint(b)
  \/ \E o \in OpIds, k \in Keys, v \in Vals : Writing /\ InstancePut(o, k, v)
  \/ \E o \in OpIds, k \in Keys : Writing /\ InstanceDelete(o, k)
  \/ \E o \in OpIds : AwaitBarrier(o)
  \/ \E o \in OpIds : PutRead(o)
  \/ \E o \in OpIds : PutPurge(o)
  \/ \E o \in OpIds : DelPurge(o)

SpecCold == Init /\ [][NextCold]_vars

\* SpecLife: base A with every instance method, close() included.
NextLife ==
  \/ \E b \in Bases : ProjStore(b)
  \/ \E b \in Bases : ProjMetaRelease(b)
  \/ \E b \in Bases : ProjCheckpoint(b)
  \/ \E o \in OpIds, k \in Keys, v \in Vals :
        (bases[OpBase(o)].closed \/ LastSeq(log["S1"]) < MaxSeqLife) /\ InstancePut(o, k, v)
  \/ \E o \in OpIds, k \in Keys :
        (bases[OpBase(o)].closed \/ LastSeq(log["S1"]) < MaxSeqLife) /\ InstanceDelete(o, k)
  \/ \E o \in OpIds : AwaitBarrier(o)
  \/ \E o \in OpIds : PutRead(o)
  \/ \E o \in OpIds : PutPurge(o)
  \/ \E o \in OpIds : DelPurge(o)
  \/ \E b \in Bases, k \in Keys : InstanceGet(b, k)
  \/ \E b \in Bases, p \in Patterns : InstanceKeys(b, p)
  \/ \E b \in Bases, v \in Vals : InstanceQuery(b, v)
  \/ \E b \in Bases, f \in Filters, cb \in Callbacks :
        bases[b].handles = <<>> /\ InstanceSubscribe(b, f, cb)
  \/ \E b \in Bases : InstanceClose(b)
  \/ \E b \in Bases : CloseDone(b)

SpecLife == Init /\ [][NextLife]_vars

\* SpecSubs: base A with subscribers that register while it writes, one put
\* or delete at a time.
Quiet == \A o \in OpIds : SlotFree(o)

NextSubs ==
  \/ \E b \in Bases : ProjStore(b)
  \/ \E b \in Bases : ProjMetaRelease(b)
  \/ \E b \in Bases : ProjCheckpoint(b)
  \/ \E o \in OpIds, k \in Keys, v \in Vals :
        Quiet /\ LastSeq(Main) < MaxSeqSubs /\ InstancePut(o, k, v)
  \/ \E o \in OpIds, k \in Keys :
        Quiet /\ LastSeq(Main) < MaxSeqSubs /\ InstanceDelete(o, k)
  \/ \E o \in OpIds : AwaitBarrier(o)
  \/ \E o \in OpIds : PutRead(o)
  \/ \E o \in OpIds : PutPurge(o)
  \/ \E o \in OpIds : DelPurge(o)
  \/ \E b \in Bases, f \in Filters, cb \in Callbacks : InstanceSubscribe(b, f, cb)

SpecSubs == Init /\ [][NextSubs]_vars

\* SpecDispose: as SpecSubs, with two callbacks and the dispose handles.
NextDispose ==
  \/ \E b \in Bases : ProjStore(b)
  \/ \E b \in Bases : ProjMetaRelease(b)
  \/ \E b \in Bases : ProjCheckpoint(b)
  \/ \E o \in OpIds, k \in Keys, v \in Vals :
        Quiet /\ LastSeq(Main) < MaxSeqSubs /\ InstancePut(o, k, v)
  \/ \E o \in OpIds, k \in Keys :
        Quiet /\ LastSeq(Main) < MaxSeqSubs /\ InstanceDelete(o, k)
  \/ \E o \in OpIds : AwaitBarrier(o)
  \/ \E o \in OpIds : PutRead(o)
  \/ \E o \in OpIds : PutPurge(o)
  \/ \E o \in OpIds : DelPurge(o)
  \/ \E b \in Bases, f \in Filters, cb \in SubCallbacks : InstanceSubscribe(b, f, cb)
  \/ \E b \in Bases, h \in 1..MaxSubs : Dispose(b, h)

SpecDispose == Init /\ [][NextDispose]_vars

\* SpecNotify: base A with overlapping puts and deletes and one subscriber,
\* registered before anything is published.
NextNotify ==
  \/ \E b \in Bases : ProjStore(b)
  \/ \E b \in Bases : ProjMetaRelease(b)
  \/ \E b \in Bases : ProjCheckpoint(b)
  \/ \E o \in OpIds, k \in Keys, v \in Vals : LastSeq(Main) < MaxSeqSubs /\ InstancePut(o, k, v)
  \/ \E o \in OpIds, k \in Keys : LastSeq(Main) < MaxSeqSubs /\ InstanceDelete(o, k)
  \/ \E o \in OpIds : AwaitBarrier(o)
  \/ \E o \in OpIds : PutRead(o)
  \/ \E o \in OpIds : PutPurge(o)
  \/ \E o \in OpIds : DelPurge(o)
  \/ \E b \in Bases, f \in Filters, cb \in Callbacks :
        bases[b].handles = <<>> /\ LastSeq(Main) = 0 /\ InstanceSubscribe(b, f, cb)

SpecNotify == Init /\ [][NextNotify]_vars

\* SpecIso: base A on stream S1 and base B on stream S2, in one process.
NextIso ==
  \/ \E b \in Bases : CreateEventbaseOn(b, "S2")
  \/ \E b \in Bases : ProjStore(b)
  \/ \E b \in Bases : ProjMetaRelease(b)
  \/ \E b \in Bases : ProjCheckpoint(b)
  \/ \E o \in OpIds, k \in Keys, v \in Vals :
        LastSeq(LogOf(OpBase(o))) < MaxSeqIso /\ InstancePut(o, k, v)
  \/ \E o \in OpIds, k \in Keys :
        LastSeq(LogOf(OpBase(o))) < MaxSeqIso /\ InstanceDelete(o, k)
  \/ \E o \in OpIds : AwaitBarrier(o)
  \/ \E o \in OpIds : PutRead(o)
  \/ \E o \in OpIds : PutPurge(o)
  \/ \E o \in OpIds : DelPurge(o)

SpecIso == Init /\ [][NextIso]_vars

TypeOK ==
  /\ \A s \in Streams : LastSeq(log[s]) <= MaxSeq
  /\ \A s \in Streams : log[s].retained \subseteq 1..LastSeq(log[s])
  /\ \A o \in OpIds : ops[o].pc \in {"idle", "published", "waiting", "resolved", "read"}


\* SpecMgr: a manager and the bases it opens, on empty streams.  Callers ask
\* for streams and read; the clock advances, the cleanup timer fires and
\* closeAll is called at any moment.
InitMgr ==
  /\ log = [s \in Streams |-> [hist |-> <<>>, retained |-> {}]]
  /\ bases = [b \in Bases |-> NewBase]
  /\ ops = [o \in OpIds |-> IdleOp]
  /\ sequenceWaiters = <<>>
  /\ ret = NoRet
  /\ mgr = NewManager

NextMgr ==
  \/ \E c \in Callers, name \in Streams : GetStream(c, name)
  \/ \E c \in Callers : GetStreamReturn(c)
  \/ \E b \in Bases, name \in Streams : PendingOpen(b, name) /\ CreateEventbaseOn(b, name)
  \/ \E b \in Bases : OpenFails(b)
  \/ \E b \in Bases : InstanceGet(b, "k1")
  \/ \E b \in Bases : CloseDone(b)
  \/ Tick
  \/ SweepStart
  \/ SweepExamine
  \/ SweepClosed
  \/ CloseAllStart
  \/ \E j \in 1..Cardinality(Streams) : CloseAllExamine(j)
  \/ \E j \in 1..Cardinality(Streams) : CloseAllClosed(j)
  \/ CloseAllFinish

SpecMgr == InitMgr /\ [][NextMgr]_vars

\* SpecOpen: as SpecMgr without closeAll; entries end by eviction only.
NextOpen ==
  \/ \E c \in Callers, name \in Streams : GetStream(c, name)
  \/ \E c \in Callers : GetStreamReturn(c)
  \/ \E b \in Bases, name \in Streams : PendingOpen(b, name) /\ CreateEventbaseOn(b, name)
  \/ \E b \in Bases : OpenFails(b)
  \/ \E b \in Bases : InstanceGet(b, "k1")
  \/ \E b \in Bases : CloseDone(b)
  \/ Tick
  \/ SweepStart
  \/ SweepExamine
  \/ SweepClosed

SpecOpen == InitMgr /\ [][NextOpen]_vars

\* SpecCloseAll: as SpecMgr with one getStream call at a time.
NextCloseAll ==
  \/ \E c \in Callers, name \in Streams : c = 1 /\ GetStream(c, name)
  \/ \E c \in Callers : GetStreamReturn(c)
  \/ \E b \in Bases, name \in Streams : PendingOpen(b, name) /\ CreateEventbaseOn(b, name)
  \/ \E b \in Bases : OpenFails(b)
  \/ \E b \in Bases : InstanceGet(b, "k1")
  \/ \E b \in Bases : CloseDone(b)
  \/ Tick
  \/ SweepStart
  \/ SweepExamine
  \/ SweepClosed
  \/ CloseAllStart
  \/ \E j \in 1..Cardinality(Streams) : CloseAllExamine(j)
  \/ \E j \in 1..Cardinality(Streams) : CloseAllClosed(j)
  \/ CloseAllFinish

SpecCloseAll == InitMgr /\ [][NextCloseAll]_vars

\* SpecEvict: a manager with one stream, whose base has subscribers that come
\* and go while the clock advances and the cleanup timer fires.
NextEvict ==
  \/ \E c \in Callers : c = 1 /\ GetStream(c, "S1")
  \/ \E c \in Callers : GetStreamReturn(c)
  \/ \E b \in Bases : PendingOpen(b, "S1") /\ CreateEventbaseOn(b, "S1")
  \/ \E b \in Bases : InstanceGet(b, "k1")
  \/ \E b \in Bases, cb \in SubCallbacks : InstanceSubscribe(b, "k1", cb)
  \/ \E b \in Bases, h \in 1..MaxSubs : Dispose(b, h)
  \/ \E b \in Bases : CloseDone(b)
  \/ Tick
  \/ SweepStart
  \/ SweepExamine
  \/ SweepClosed

SpecEvict == InitMgr /\ [][NextEvict]_vars

\* SpecRestart: base A writes, is closed at any moment and is opened again on
\* the same stream and stores; calls left suspended on the closed instance
\* are not followed further.
NextRestart ==
  \/ \E b \in Bases : ProjStore(b)
  \/ \E b \in Bases : ProjMetaRelease(b)
  \/ \E b \in Bases : ProjCheckpoint(b)
  \/ \E o \in OpIds, k \in Keys, v \in Vals :
        (~bases[OpBase(o)].closed /\ LastSeq(log["S1"]) < MaxSeqRestart) /\ InstancePut(o, k, v)
  \/ \E o \in OpIds, k \in Keys :
        (~bases[OpBase(o)].closed /\ LastSeq(log["S1"]) < MaxSeqRestart) /\ InstanceDelete(o, k)
  \/ \E o \in OpIds : AwaitBarrier(o)
  \/ \E o \in OpIds : PutRead(o)
  \/ \E o \in OpIds : PutPurge(o)
  \/ \E o \in OpIds : DelPurge(o)
  \/ \E b \in Bases, k \in Keys : InstanceGet(b, k)
  \/ \E b \in Bases : InstanceClose(b)
  \/ \E b \in Bases : CloseDone(b)
  \/ \E b \in Bases : Reopen(b)

SpecRestart == Init /\ [][NextRestart]_vars

\* SpecSettings: the stores of base A as a new process finds them, with any
\* document under seqKey (none, digits, other text); A is opened on them and
\* goes on as in SpecRestart.
SettingsChars == {"1", "x"}
SettingsValues ==
  {<<>>} \cup {<<str>> : str \in UNION {[1..n -> SettingsChars] : n \in 0..MaxLen}}

InitSettings ==
  /\ log = [s \in Streams |-> [hist |-> <<>>, retained |-> {}]]
  /\ \E doc \in SettingsValues :
        bases = [b \in Bases |->
                   IF b = "A"
                   THEN [NewBase EXCEPT !.status = "closed", !.closed = TRUE,
                                        !.seqStr = doc,
                                        !.checkpoint = ReadCheckpoint(doc)]
                   ELSE NewBase]
  /\ ops = [o \in OpIds |-> IdleOp]
  /\ sequenceWaiters = <<>>
  /\ ret = NoRet
  /\ mgr = NewManager

SpecSettings == InitSettings /\ [][NextRestart]_vars

\* SpecGet: base A writes while its callers read with instance.get, the
\* projector running between the two reads of a get.
NextGet ==
  \/ \E b \in Bases : ProjStore(b)
  \/ \E b \in Bases : ProjMetaRelease(b)
  \/ \E b \in Bases : ProjCheckpoint(b)
  \/ \E o \in OpIds, k \in Keys, v \in Vals : LastSeq(log["S1"]) < MaxSeqGet /\ InstancePut(o, k, v)
  \/ \E o \in OpIds, k \in Keys : LastSeq(log["S1"]) < MaxSeqGet /\ InstanceDelete(o, k)
  \/ \E o \in OpIds : AwaitBarrier(o)
  \/ \E o \in OpIds : PutRead(o)
  \/ \E o \in OpIds : PutPurge(o)
  \/ \E o \in OpIds : DelPurge(o)
  \/ \E o \in OpIds, k \in Keys : GetReadDb(o, k)
  \/ \E o \in OpIds : GetReadMeta(o)

SpecGet == Init /\ [][NextGet]_vars

\* SpecAccess: every public operation of base A while the clock advances.
NextAccess ==
  \/ \E b \in Bases : ProjStore(b)
  \/ \E b \in Bases : ProjMetaRelease(b)
  \/ \E b \in Bases : ProjCheckpoint(b)
  \/ \E o \in OpIds, k \in Keys, v \in Vals : LastSeq(log["S1"]) < MaxSeqAccess /\ InstancePut(o, k, v)
  \/ \E o \in OpIds, k \in Keys : LastSeq(log["S1"]) < MaxSeqAccess /\ InstanceDelete(o, k)
  \/ \E o \in OpIds : AwaitBarrier(o)
  \/ \E o \in OpIds : PutRead(o)
  \/ \E o \in OpIds : PutPurge(o)
  \/ \E o \in OpIds : DelPurge(o)
  \/ \E b \in Bases, k \in Keys : InstanceGet(b, k)
  \/ \E b \in Bases, p \in Patterns : InstanceKeys(b, p)
  \/ \E b \in Bases, v \in Vals : InstanceQuery(b, v)
  \/ \E b \in Bases, f \in Filters, cb \in Callbacks : InstanceSubscribe(b, f, cb)
  \/ Tick

SpecAccess == Init /\ [][NextAccess]_vars

\* SpecReentrant: base A with subscribers whose callbacks call dispose
\* handles while they are notified.
NextReentrant ==
  \/ \E b \in Bases : ProjStore(b)
  \/ \E b \in Bases : ProjMetaRelease(b)
  \/ \E b \in Bases, cb \in SubCallbacks, h \in 1..MaxSubs : ProjMetaReleaseDisposing(b, cb, h)
  \/ \E b \in Bases : ProjCheckpoint(b)
  \/ \E o \in OpIds, k \in Keys, v \in Vals :
        Quiet /\ LastSeq(Main) < MaxSeqReentrant /\ InstancePut(o, k, v)
  \/ \E o \in OpIds, k \in Keys :
        Quiet /\ LastSeq(Main) < MaxSeqReentrant /\ InstanceDelete(o, k)
  \/ \E o \in OpIds : AwaitBarrier(o)
  \/ \E o \in OpIds : PutRead(o)
  \/ \E o \in OpIds : PutPurge(o)
  \/ \E o \in OpIds : DelPurge(o)
  \/ \E b \in Bases, f \in Filters, cb \in SubCallbacks : InstanceSubscribe(b, f, cb)

SpecReentrant == Init /\ [][NextReentrant]_vars

\* SpecCrash: base A writes; its process is killed at any moment, between any
\* two writes of the projector, and the base is opened again on its stores.
NextCrash ==
  \/ \E b \in Bases : ProjStore(b)
  \/ \E b \in Bases : ProjMetaRelease(b)
  \/ \E b \in Bases : ProjCheckpoint(b)
  \/ \E o \in OpIds, k \in Keys, v \in Vals : LastSeq(log["S1"]) < MaxSeqRestart /\ InstancePut(o, k, v)
  \/ \E o \in OpIds, k \in Keys : LastSeq(log["S1"]) < MaxSeqRestart /\ InstanceDelete(o, k)
  \/ \E o \in OpIds : AwaitBarrier(o)
  \/ \E o \in OpIds : PutRead(o)
  \/ \E o \in OpIds : PutPurge(o)
  \/ \E o \in OpIds : DelPurge(o)
  \/ Crash
  \/ \E b \in Bases : Reopen(b)

SpecCrash == Init /\ [][NextCrash]_vars

\* SpecFaults: base A with every instance method, where the onMessage hook,
\* a local store or the purge request may fail.
NextFaults ==
  \/ \E b \in Bases : ProjStore(b)
  \/ \E b \in Bases : ProjMetaRelease(b)
  \/ \E b \in Bases : ProjCheckpoint(b)
  \/ \E b \in Bases : ProjHookThrows(b)
  \/ \E b \in Bases : ProjStoreThrows(b)
  \/ \E o \in OpIds, k \in Keys, v \in Vals : LastSeq(log["S1"]) < MaxSeqFaults /\ InstancePut(o, k, v)
  \/ \E o \in OpIds, k \in Keys : LastSeq(log["S1"]) < MaxSeqFaults /\ InstanceDelete(o, k)
  \/ \E o \in OpIds : AwaitBarrier(o)
  \/ \E o \in OpIds : PutRead(o)
  \/ \E o \in OpIds : PutPurge(o)
  \/ \E o \in OpIds : PutPurgeFails(o)
  \/ \E o \in OpIds : DelPurge(o)
  \/ \E b \in Bases, k \in Keys : InstanceGet(b, k)
  \/ \E b \in Bases, p \in Patterns : InstanceKeys(b, p)
  \/ \E b \in Bases, v \in Vals : InstanceQuery(b, v)
  \/ \E b \in Bases, f \in Filters, cb \in Callbacks :
        bases[b].handles = <<>> /\ InstanceSubscribe(b, f, cb)

SpecFaults == Init /\ [][NextFaults]_vars

\* SpecBarrier: base A alone with concurrent put and delete calls, where the
\* projector and every call that can take a step eventually take it.  New
\* calls are made at will.
NextBarrier ==
  \/ \E b \in Bases : ProjStore(b)
  \/ \E b \in Bases : ProjMetaRelease(b)
  \/ \E b \in Bases : ProjCheckpoint(b)
  \/ \E o \in OpIds, k \in Keys, v \in Vals : LastSeq(log["S1"]) < MaxSeqBarrier /\ InstancePut(o, k, v)
  \/ \E o \in OpIds, k \in Keys : LastSeq(log["S1"]) < MaxSeqBarrier /\ InstanceDelete(o, k)
  \/ \E o \in OpIds : AwaitBarrier(o)
  \/ \E o \in OpIds : PutRead(o)
  \/ \E o \in OpIds : PutPurge(o)
  \/ \E o \in OpIds : DelPurge(o)

\* The event loop runs every task that is ready.
Scheduling ==
  /\ \A b \in Bases : WF_vars(ProjStore(b)) /\ WF_vars(ProjMetaRelease(b)) /\ WF_vars(ProjCheckpoint(b))
  /\ \A o \in OpIds : WF_vars(AwaitBarrier(o)) /\ WF_vars(PutRead(o))
                        /\ WF_vars(PutPurge(o)) /\ WF_vars(DelPurge(o))

SpecBarrier == Init /\ [][NextBarrier]_vars /\ Scheduling

\* SpecOpening: as SpecCold under the same scheduling: A writes, then B is
\* created on the compacted log and nothing is published afterwards; the
\* consumer of B is handed every retained message.
NextOpening ==
  \/ \E b \in Bases : (\A o \in OpIds : SlotFree(o)) /\ CreateEventbase(b)
  \/ \E b \in Bases : ProjStore(b)
  \/ \E b \in Bases : ProjMetaRelease(b)
  \/ \E b \in Bases : ProjCheckpoint(b)
  \/ \E o \in OpIds, k \in Keys, v \in Vals :
        (Writing /\ LastSeq(log["S1"]) < MaxSeqOpening) /\ InstancePut(o, k, v)
  \/ \E o \in OpIds, k \in Keys :
        (Writing /\ LastSeq(log["S1"]) < MaxSeqOpening) /\ InstanceDelete(o, k)
  \/ \E o \in OpIds : AwaitBarrier(o)
  \/ \E o \in OpIds : PutRead(o)
  \/ \E o \in OpIds : PutPurge(o)
  \/ \E o \in OpIds : DelPurge(o)

SpecOpening == Init /\ [][NextOpening]_vars /\ Scheduling

\* ------------------------------------------------------------ properties ----
Seqs == 1..LastSeq(Main)
PutsOf(k) == {s \in Seqs : Main.hist[s].type = "PUT" /\ Main.hist[s].id = k}
DeletesOf(k) == {s \in Seqs : Main.hist[s].type = "DELETE" /\ Main.hist[s].id = k}
EventsOf(k) == PutsOf(k) \cup DeletesOf(k)

\* The PUT events base b has applied for k since the last DELETE it applied for k.
LineagePuts(b, k) ==
  LET dels == DeletesOf(k) \cap bases[b].applied
      from == IF dels = {} THEN 0 ELSE SetMax(dels)
  IN {s \in PutsOf(k) \cap bases[b].applied : s > from}

\* A put / delete with no overlapping call on its key has just returned.
PutReturned == ret.op = "put" /\ ret.error = "none" /\ ~ret.conc
DeleteReturned == ret.op = "delete" /\ ret.error = "none" /\ ~ret.conc

\* C1: a waiter registered for sequence s is resolved only once the projector of
\* its own base has applied an event with sequence >= s to db and meta.
C1_BarrierReadYourWrites ==
  [][\A o \in OpIds :
       (ops[o].pc = "waiting" /\ ops'[o].pc = "resolved")
         => \E s \in bases'[OpBase(o)].applied : s >= ops[o].seq]_vars

\* C2: when put(k, v) has returned on a base with no concurrent write to k,
\* get(k) on that base yields data {id: k, ...v} and meta.changes equal to the
\* number of PUT events applied for k in its current lineage.
C2_PutThenGet ==
  PutReturned =>
    /\ InstanceGetResult(ret.base, ret.key) # Null
    /\ InstanceGetResult(ret.base, ret.key)[1].data = Doc(ret.key, ret.val)
    /\ InstanceGetResult(ret.base, ret.key)[1].meta # Null
    /\ InstanceGetResult(ret.base, ret.key)[1].meta[1].changes
         = Cardinality(LineagePuts(ret.base, ret.key))

\* C3: when delete(k) has returned on a base with no concurrent write to k,
\* get(k) on that base yields null.
C3_DeleteThenGet ==
  DeleteReturned => InstanceGetResult(ret.base, ret.key) = Null

\* A base whose instance is usable and whose projector has applied the whole log.
Usable(b) == HasInstance(b) /\ ~bases[b].closed
CaughtUp(b) == Usable(b) /\ bases[b].pc = "idle" /\ bases[b].checkpoint >= LastSeq(Main)

\* C4: when put(k, v) has returned on one base, get(k) on every other usable
\* base of the stream yields the projection of v at once.
C4_PutThenGetElsewhere ==
  PutReturned =>
    \A b \in Bases \ {ret.base} :
      Usable(b) => /\ InstanceGetResult(b, ret.key) # Null
                   /\ InstanceGetResult(b, ret.key)[1].data = Doc(ret.key, ret.val)

\* Nothing can move on base b unless a new call is made.
Settled(b) ==
  /\ bases[b].pc = "idle"
  /\ ~HasNext(b)
  /\ \A o \in OpIds : ops[o].pc \in {"idle", "waiting"}

SeveralPutsOnDistinctKeys ==
  /\ LastSeq(Main) >= 2
  /\ \A s \in Seqs : Main.hist[s].type = "PUT" /\ \A t \in Seqs \ {s} : Main.hist[t].id # Main.hist[s].id

\* C5: concurrent puts on distinct keys of one base all return: none throws, none
\* is left waiting once the projector has applied the whole log, and each key
\* then reads as written.
C5_ConcurrentPutsReturn ==
  SeveralPutsOnDistinctKeys =>
    /\ ret.op = "put" => ret.error = "none"
    /\ Settled("A") => \A o \in OpIds : ops[o].pc # "waiting"
    /\ ret.op = "put" => /\ InstanceGetResult(ret.base, ret.key) # Null
                         /\ InstanceGetResult(ret.base, ret.key)[1].data = Doc(ret.key, ret.val)

Changes(b, k) == IF k \in DOMAIN bases[b].meta THEN bases[b].meta[k].changes ELSE 0

\* C6: two bases of one stream that have both applied the log up to its highest
\* sequence hold the same data and the same meta.changes for every key.
C6_Convergence ==
  (CaughtUp("A") /\ CaughtUp("B")) =>
    \A k \in Keys : Data("A", k) = Data("B", k) /\ Changes("A", k) = Changes("B", k)

\* C7: the PUT that is the latest event of a key is never purged, and a key that
\* is live on a base which has applied the whole log keeps a PUT in the log.
C7_CompactionSafety ==
  \A k \in Keys :
    /\ (EventsOf(k) # {} /\ SetMax(EventsOf(k)) \in PutsOf(k))
         => SetMax(EventsOf(k)) \in Main.retained
    /\ \A b \in Bases : (CaughtUp(b) /\ k \in DOMAIN bases[b].db) => PutSubject(Main, k) # {}

\* C8: after awaited puts on a key (and nothing else on that key), a base started
\* on an empty local store is ready with the value of the last put, and with
\* meta.changes equal to the number of PUT messages left in the log, at least 1.
C8_ColdStartAfterCompaction ==
  (bases["B"].ready /\ bases["B"].status = "open") =>
    \A k \in Keys :
      (PutsOf(k) # {} /\ DeletesOf(k) = {}) =>
        /\ InstanceGetResult("B", k) # Null
        /\ InstanceGetResult("B", k)[1].data = Doc(k, Main.hist[SetMax(PutsOf(k))].data)
        /\ InstanceGetResult("B", k)[1].meta # Null
        /\ InstanceGetResult("B", k)[1].meta[1].changes = Cardinality(PutSubject(Main, k))
        /\ Cardinality(PutSubject(Main, k)) >= 1

C8_Witness ==
  /\ bases["B"].ready /\ bases["B"].status = "open"
  /\ DeletesOf("k1") = {}
  /\ Cardinality(PutsOf("k1")) >= 2
  /\ Cardinality(PutSubject(Main, "k1")) = 1
  /\ Main.hist[SetMin(PutsOf("k1"))].data # Main.hist[SetMax(PutsOf("k1"))].data
  /\ Data("B", "k1") = <<Doc("k1", Main.hist[SetMax(PutsOf("k1"))].data)>>

\* C10: when close() has completed on a base, none of its put or delete calls
\* is still suspended on the barrier.
C10_CloseFailsWaiters ==
  \A b \in Bases :
    bases[b].status = "closed" => \A o \in OpIds : OpBase(o) = b => ops[o].pc # "waiting"

ReadOps == {"get", "keys", "query", "subscribe"}
WriteOps == {"put", "delete"}

\* C9: once close() has been called on a base, every get, put, delete, keys,
\* query and subscribe on it throws the instance-closed error and changes
\* nothing: no call starts, no event is published, no callback is registered.
C9_ClosedGuard ==
  [][\A b \in Bases :
       bases[b].closed =>
         /\ (ret'.base = b /\ ret'.op \in ReadOps) => ret'.error = InstanceClosed
         /\ (ret'.base = b /\ ret'.op \in WriteOps /\ ops' = ops) => ret'.error = InstanceClosed
         /\ \A o \in OpIds : (OpBase(o) = b /\ ops[o].pc = "idle") => ops'[o].pc = "idle"
         /\ LastSeq(Main') > LastSeq(Main)
              => \E o \in OpIds : OpBase(o) # b /\ ops[o].pc = "idle" /\ ops'[o].pc = "published"
         /\ bases'[b].subscriptions \in {bases[b].subscriptions, <<>>}
         /\ bases'[b].activeSubscriptions = bases[b].activeSubscriptions
         /\ (ret'.base = b /\ ret'.error = InstanceClosed)
              => (log' = log /\ bases' = bases /\ ops' = ops /\ sequenceWaiters' = sequenceWaiters)]_vars

C9_Witness ==
  /\ ret.error = InstanceClosed
  /\ ret.op = "subscribe"
  /\ bases[ret.base].status = "closed"
  /\ bases[ret.base].subscriptions = <<>>
  /\ \E o \in OpIds : OpBase(o) = ret.base /\ ops[o].pc = "waiting"

\* The documents of base b all come from PUT events of the stream b is bound to.
OwnStreamOnly(b) ==
  \A k \in DOMAIN bases[b].db :
    \E s \in 1..LastSeq(LogOf(b)) :
      /\ LogOf(b).hist[s].type = "PUT"
      /\ LogOf(b).hist[s].id = k
      /\ bases[b].db[k] = Doc(k, LogOf(b).hist[s].data)

\* C11: bases bound to different streams are isolated: the local store of a base
\* holds only what was put on its own stream, and a waiter of a put or delete
\* on one base is resolved only by a step of that base's own projector.
C11_BaseIsolation ==
  [][/\ \A b \in Bases : OwnStreamOnly(b)'
     /\ \A o \in OpIds :
          (ops[o].pc = "waiting" /\ ops'[o].pc = "resolved")
            => (bases[OpBase(o)].pc = "stored" /\ bases'[OpBase(o)].pc = "released")]_vars

\* ------------------------------------------------- subscriber properties ----
\* The invocations made by the step, and the event the step has applied.
NewCalls(b) == SubSeq(bases'[b].delivered, Len(bases[b].delivered) + 1, Len(bases'[b].delivered))
Applies(b, s) == s \in bases'[b].applied \ bases[b].applied
CountCalls(calls, f, cb) ==
  Cardinality({i \in 1..Len(calls) : calls[i].filter = f /\ calls[i].cb = cb})

\* The callbacks registered under filter f that are cb.
Registered(subs, f, cb) ==
  IF FilterIndex(subs, f) = {} THEN 0
  ELSE LET cbs == subs[SetMin(FilterIndex(subs, f))].cbs
       IN Cardinality({j \in 1..Len(cbs) : cbs[j] = cb})

\* A filter is a key, or a prefix followed by `*`.
Selects(f, k) == f = k \/ (f = "k*" /\ k \in Keys)

\* The document base b held for key k before it applied event s.
Before(b, k, s) ==
  LET prev == {t \in bases[b].applied : t < s /\ LogOf(b).hist[t].id = k}
  IN IF prev # {} /\ LogOf(b).hist[SetMax(prev)].type = "PUT"
     THEN <<Doc(k, LogOf(b).hist[SetMax(prev)].data)>>
     ELSE Null

C14_DeleteNotification ==
  [][\A b \in Bases : \A s \in 1..MaxSeq :
       (Applies(b, s) /\ LogOf(b).hist[s].type = "DELETE") =>
         /\ \A f \in Filters, cb \in SubCallbacks :
              CountCalls(NewCalls(b), f, cb) = Registered(bases[b].subscriptions, f, cb)
         /\ \A i \in 1..Len(NewCalls(b)) :
              /\ NewCalls(b)[i].data = Before(b, LogOf(b).hist[s].id, s)
              /\ NewCalls(b)[i].meta = Null]_vars

\* The handles for (f, cb) that were handed out and never called.
LiveHandles(b, f, cb) ==
  Cardinality({h \in 1..Len(bases[b].handles) :
                 /\ bases[b].handles[h].filter = f
                 /\ bases[b].handles[h].cb = cb
                 /\ ~bases[b].handles[h].ran})

\* C15: a registration whose dispose handle has run is not invoked for events
\* applied afterwards, and every other registration still is: for each event
\* applied, a callback under a selecting filter is invoked once per handle
\* that has not run.
C15_Unsubscribe ==
  [][\A b \in Bases : \A s \in 1..MaxSeq :
       (Applies(b, s) /\ LogOf(b).hist[s].type = "PUT") =>
         \A f \in Filters, cb \in SubCallbacks :
           Selects(f, LogOf(b).hist[s].id) =>
             CountCalls(NewCalls(b), f, cb) = LiveHandles(b, f, cb)]_vars

\* C16: when a put or delete returns on a base, every callback registered on
\* the base under a filter selecting the key has been invoked for the event of
\* that call.
C16_NotifyBeforeReturn ==
  [][\A o \in OpIds :
       (InFlight(o) /\ ops'[o].pc = "idle" /\ ret'.op \in {"put", "delete"} /\ ret'.error = "none") =>
         \A f \in Filters, cb \in SubCallbacks :
           (Selects(f, ops[o].key) /\ Registered(bases[OpBase(o)].subscriptions, f, cb) > 0) =>
             \E i \in 1..Len(bases[OpBase(o)].delivered) :
               /\ bases[OpBase(o)].delivered[i].seq = ops[o].seq
               /\ bases[OpBase(o)].delivered[i].filter = f
               /\ bases[OpBase(o)].delivered[i].cb = cb]_vars

\* ----------------------------------------------------- manager properties ----
\* createEventbase invocations and events emitted for a name so far.
CreatedFor(m, name) == Cardinality({i \in 1..Len(m.created) : m.created[i].name = name})
EmittedFor(m, event, name) ==
  Cardinality({i \in 1..Len(m.emitted) : m.emitted[i] = [event |-> event, name |-> name]})

HeldIn(m, name) == EntryIndex(m.instances, name) # {}
InstanceIn(m, name) == m.instances[SetMin(EntryIndex(m.instances, name))].inst

\* A getStream call takes the promise stored under its name in this step.
Binds(c, name) ==
  /\ mgr.calls[c].pc = "idle"
  /\ mgr'.calls[c].pc = "await"
  /\ mgr'.calls[c].name = name

\* C17: while the manager holds an entry for a name the entry keeps its base,
\* every getStream call for the name takes that base and resolves to it, and
\* createEventbase is invoked and 'stream:opened' emitted once, when the entry
\* is made, and not again while it is held.
C17_SingleFlightOpen ==
  [][\A name \in Streams :
       /\ (HeldIn(mgr, name) /\ HeldIn(mgr', name))
            => InstanceIn(mgr', name) = InstanceIn(mgr, name)
       /\ HeldIn(mgr, name)
            => /\ CreatedFor(mgr', name) = CreatedFor(mgr, name)
               /\ EmittedFor(mgr', "stream:opened", name) = EmittedFor(mgr, "stream:opened", name)
       /\ (~HeldIn(mgr, name) /\ HeldIn(mgr', name))
            => /\ CreatedFor(mgr', name) = CreatedFor(mgr, name) + 1
               /\ EmittedFor(mgr', "stream:opened", name) = EmittedFor(mgr, "stream:opened", name) + 1
       /\ \A c \in Callers :
            /\ Binds(c, name) => mgr'.calls[c].inst = InstanceIn(mgr', name)
            /\ (mgr.calls[c].pc = "await" /\ mgr.calls[c].name = name
                  /\ ret'.op = "getStream" /\ ret'.error = "none" /\ mgr'.calls[c].pc = "idle")
                 => ret'.base = mgr.calls[c].inst]_vars

\* Two getStream calls for one name are suspended on the promise of a base
\* that has not finished opening.
C17_Witness ==
  /\ mgr.calls[1].pc = "await" /\ mgr.calls[2].pc = "await"
  /\ mgr.calls[1].name = mgr.calls[2].name
  /\ mgr.calls[1].inst = mgr.calls[2].inst
  /\ bases[mgr.calls[1].inst].status = "off"
  /\ CreatedFor(mgr, mgr.calls[1].name) = 1

\* C18: a getStream call never takes, and so never resolves to, a base whose
\* close() has begun: after an eviction or closeAll has called close() the
\* next getStream for the name opens a new base.
C18_NoClosedBase ==
  [][\A c \in Callers, name \in Streams :
       Binds(c, name) => ~bases'[mgr'.calls[c].inst].closed]_vars

\* The sweep calls close() on the base of the entry it examines in this step.
SweepCloses(b) ==
  /\ mgr.sweep.pc = "await"
  /\ mgr'.sweep.pc = "closing"
  /\ Head(mgr.sweep.todo).inst = b

\* Callbacks registered on the base.
Subscribers(b) ==
  {<<i, j>> \in (1..MaxSubs) \X (1..MaxSubs) :
     i <= Len(bases[b].subscriptions) /\ j <= Len(bases[b].subscriptions[i].cbs)}

\* The first half of C19: the test the sweep applies.
SweepTest(b) ==
  /\ mgr.sweep.now - bases[b].lastAccessed > KeepAlive
  /\ bases[b].activeSubscriptions = 0

\* C19: the sweep calls close() on a base only when the clock it read exceeds
\* the base's lastAccessed by more than the keep-alive and the base reports no
\* active subscriptions; a base on which a subscriber is registered is not
\* closed by the sweep.
C19_SweepSparesSubscribed ==
  [][\A b \in Bases : SweepCloses(b) => (SweepTest(b) /\ Subscribers(b) = {})]_vars

\* One of closeAll's functions ends in this step.
JobEnds(j) ==
  /\ j \in 1..Len(mgr.closeAll.jobs)
  /\ mgr.closeAll.jobs[j].pc # "done"
  /\ mgr'.closeAll.pc = "running"
  /\ mgr'.closeAll.jobs[j].pc = "done"

\* C20: closeAll stops the cleanup timer and takes every entry of the map;
\* for each it awaits the open and calls close(), emitting 'stream:closed'
\* when the close resolved and nothing when the open or the close failed;
\* when it returns every entry whose open succeeded has had close() called,
\* the map is empty, and a getStream that finds no entry opens a new base.
C20_CloseAll ==
  [][/\ (mgr.closeAll.pc = "idle" /\ mgr'.closeAll.pc = "running")
          => /\ ~mgr'.cleanupInterval
             /\ Len(mgr'.closeAll.jobs) = Len(mgr.instances)
             /\ \A i \in 1..Len(mgr.instances) :
                   /\ mgr'.closeAll.jobs[i].name = mgr.instances[i].name
                   /\ mgr'.closeAll.jobs[i].inst = mgr.instances[i].inst
     /\ \A j \in 1..Cardinality(Streams) :
          JobEnds(j)
            => IF mgr'.closeAll.jobs[j].how = "closed"
               THEN /\ bases[mgr.closeAll.jobs[j].inst].status = "closed"
                    /\ mgr'.emitted = Emit("stream:closed", mgr.closeAll.jobs[j].name)
               ELSE mgr'.emitted = mgr.emitted
     /\ ret'.op = "closeAll"
          => /\ mgr'.instances = <<>>
             /\ \A j \in 1..Len(mgr.closeAll.jobs) :
                   \/ bases[mgr.closeAll.jobs[j].inst].status = "failed"
                   \/ bases[mgr.closeAll.jobs[j].inst].closed
     /\ \A c \in Callers, name \in Streams :
          (Binds(c, name) /\ ~HeldIn(mgr, name))
            => /\ mgr'.calls[c].inst \notin Allocated
               /\ ~bases'[mgr'.calls[c].inst].closed]_vars

\* closeAll has returned after closing one base and meeting one failed open:
\* the map is empty, the timer is stopped, 'stream:closed' was emitted.
C20_Witness ==
  /\ ret.op = "closeAll"
  /\ mgr.instances = <<>>
  /\ ~mgr.cleanupInterval
  /\ \E b1, b2 \in Bases : bases[b1].status = "closed" /\ bases[b2].status = "failed"
  /\ \E name \in Streams : EmittedFor(mgr, "stream:closed", name) = 1

\* ------------------------------------------------- projector properties ----
NoDuplicates(q) == \A i, j \in 1..Len(q) : q[i] = q[j] => i = j
Elements(q) == {q[i] : i \in 1..Len(q)}

\* The projector of b has nothing left to consume.
Drained(b) == bases[b].status = "open" /\ bases[b].pc = "idle" /\ ~HasNext(b)

\* C21: a base opened again on the stream and stores of a closed one consumes
\* from checkpoint + 1; its onMessage hook and its projection run once for
\* each event not applied before the close, never for an event at or below
\* the persisted checkpoint, and what was projected before the close is read
\* as before.
C21_ResumeAfterRestart ==
  [][\A b \in Bases :
       /\ (bases[b].status = "closed" /\ bases'[b].status = "open")
            => /\ bases'[b].cursor = bases[b].checkpoint + 1
               /\ \A k \in Keys : InstanceGetResult(b, k)' = InstanceGetResult(b, k)
       /\ NoDuplicates(bases'[b].hooked)
       /\ NoDuplicates(bases'[b].projected)
       /\ \A s \in Elements(bases'[b].hooked) : s >= bases'[b].startSeq
       /\ Len(bases'[b].hooked) > Len(bases[b].hooked)
            => bases'[b].hooked[Len(bases'[b].hooked)] > bases[b].checkpoint
       /\ Drained(b)'
            => \A s \in LogOf(b)'.retained :
                 s >= bases'[b].startSeq
                   => s \in Elements(bases'[b].hooked) /\ s \in Elements(bases'[b].projected)]_vars

\* A base that applied one event, was closed and opened again has consumed
\* the event published in between, and still holds the key of the first.
C21_Witness ==
  /\ bases["A"].status = "open"
  /\ bases["A"].startSeq = 2
  /\ bases["A"].hooked = <<2>>
  /\ bases["A"].projected = <<1, 2>>
  /\ Main.hist[1].type = "PUT"
  /\ Main.hist[2].id # Main.hist[1].id
  /\ Main.hist[1].id \in DOMAIN bases["A"].db

\* The step applies an event to the stores of b: the event, and the events
\* applied for key k before it.
Projects(b) == Len(bases'[b].projected) > Len(bases[b].projected)
ProjectedNow(b) == bases'[b].projected[Len(bases'[b].projected)]
EarlierFor(b, k) ==
  {i \in 1..Len(bases[b].projected) : LogOf(b).hist[bases[b].projected[i]].id = k}
FollowsPut(b, k) ==
  /\ EarlierFor(b, k) # {}
  /\ LogOf(b).hist[bases[b].projected[SetMax(EarlierFor(b, k))]].type = "PUT"

\* C22: the first PUT applied for a key, or the first after a DELETE of it,
\* creates meta {dateCreated = dateModified = log time of the event, changes
\* = 1}; every later PUT sets dateModified to its log time, adds exactly 1 to
\* changes and leaves dateCreated as it was.
C22_MetadataEvolution ==
  [][\A b \in Bases :
       (Projects(b) /\ LogOf(b).hist[ProjectedNow(b)].type = "PUT")
         => LET s == ProjectedNow(b)
                k == LogOf(b).hist[s].id
            IN /\ k \in DOMAIN bases'[b].meta
               /\ IF FollowsPut(b, k)
                  THEN /\ k \in DOMAIN bases[b].meta
                       /\ bases'[b].meta[k].dateModified = LogTime(s)
                       /\ bases'[b].meta[k].changes = bases[b].meta[k].changes + 1
                       /\ bases'[b].meta[k].dateCreated = bases[b].meta[k].dateCreated
                  ELSE bases'[b].meta[k] =
                         [dateCreated |-> LogTime(s), dateModified |-> LogTime(s), changes |-> 1]
               /\ \A x \in Keys \ {k} :
                    /\ x \in DOMAIN bases'[b].meta <=> x \in DOMAIN bases[b].meta
                    /\ x \in DOMAIN bases[b].meta => bases'[b].meta[x] = bases[b].meta[x]]_vars

\* A key was deleted, put and put again: its metadata was created by the PUT
\* after the DELETE and modified by the last one.
C22_Witness ==
  /\ LastSeq(Main) >= 3
  /\ "k1" \in DOMAIN bases["A"].meta
  /\ bases["A"].meta["k1"].changes = 2
  /\ bases["A"].meta["k1"].dateCreated = LastSeq(Main) - 1
  /\ bases["A"].meta["k1"].dateModified = LastSeq(Main)
  /\ \E s \in Elements(bases["A"].projected) : s < LastSeq(Main) - 1 /\ Main.hist[s].id = "k1"

\* C23: a PUT that is redelivered, because the projector stopped between
\* applying it and persisting the checkpoint, leaves the key as one
\* application does: the document of the PUT, and meta.changes equal to the
\* number of PUT events applied for the key since its last DELETE.
C23_RedeliveryIdempotent ==
  \A b \in Bases :
    Drained(b) =>
      \A k \in Keys :
        /\ Changes(b, k) = Cardinality(LineagePuts(b, k))
        /\ LineagePuts(b, k) # {}
             => Data(b, k) = <<Doc(k, Main.hist[SetMax(LineagePuts(b, k))].data)>>

\* C24: a put whose event was published and projected returns the stored
\* {meta, data} whatever becomes of its purge request; no error of the purge
\* reaches the caller.
C24_PurgeBestEffort ==
  [][\A o \in OpIds :
       (ops[o].kind = "put" /\ ops[o].pc = "read" /\ ops'[o].pc = "idle"
          /\ bases[OpBase(o)].status # "closed")
         => /\ ret'.op = "put"
            /\ ret'.error = "none"
            /\ ret'.result = ops[o].result]_vars

\* C25: when the onMessage hook throws for an event the projector goes on with
\* that event (the step stores it) and is not stopped.
C25_HookFailureSwallowed ==
  [][\A b \in Bases :
       (Len(bases'[b].hooked) > Len(bases[b].hooked) /\ bases'[b].fault = "hook")
         => /\ bases'[b].pc = "stored"
            /\ bases'[b].cur = bases'[b].hooked[Len(bases'[b].hooked)]]_vars

PublicOps == {"get", "put", "delete", "keys", "query", "subscribe"}

\* C26: when a local store throws during projection the projector stops and
\* the event is not acknowledged (the checkpoint stays); from then on every
\* get, put, delete, keys, query and subscribe on the base fails with an error:
\* none returns a value, registers a callback or starts a call that waits.
C26_ProjectionFailureClosesBase ==
  [][\A b \in Bases :
       /\ (bases[b].fault = "none" /\ bases'[b].fault = "store")
            => bases'[b].checkpoint = bases[b].checkpoint /\ bases'[b].pc = "failed"
       /\ bases[b].fault = "store"
            => /\ (ret'.base = b /\ ret'.op \in PublicOps /\ ops' = ops) => ret'.error # "none"
               /\ \A o \in OpIds : (OpBase(o) = b /\ ops[o].pc = "idle") => ops'[o].pc = "idle"
               /\ bases'[b].subscriptions = bases[b].subscriptions]_vars

\* The projector of the caller's base has applied an event at or above the
\* sequence operation o waits for.
BarrierDue(o) ==
  /\ ops[o].pc = "waiting"
  /\ \E s \in bases[OpBase(o)].applied : s >= ops[o].seq

\* C27: a call suspended in waitForStream(seq) is resolved once the projector
\* of its base has applied an event with sequence >= seq, whenever it
\* registered.
C27_BarrierLiveness ==
  \A o \in OpIds : BarrierDue(o) ~> (ops[o].pc # "waiting")

\* The event applied last for key k among those base b has applied.
AppliedFor(b, k) == {s \in bases[b].applied : LogOf(b).hist[s].id = k}
Reflects(b, k) ==
  IF AppliedFor(b, k) # {} /\ LogOf(b).hist[SetMax(AppliedFor(b, k))].type = "PUT"
  THEN Data(b, k) = <<Doc(k, LogOf(b).hist[SetMax(AppliedFor(b, k))].data)>>
  ELSE Data(b, k) = Null

\* C28: ready is signalled only when last_seq captured at startup is 0, or
\* the persisted checkpoint has reached it (at once, or by applying an event
\* at or above it); so once createEventbase has returned the local store
\* holds the outcome of every retained event up to that last_seq.
C28_StartupReadiness ==
  \A b \in Bases :
    (bases[b].ready /\ bases[b].status \in {"open", "closing"}) =>
      /\ bases[b].targetSeq = 0 \/ bases[b].checkpoint >= bases[b].targetSeq
      /\ \A s \in LogOf(b).retained : s <= bases[b].targetSeq => s \in bases[b].applied
      /\ bases[b].pc = "idle" => \A k \in Keys : Reflects(b, k)

\* A base opened with an event waiting in the log is ready after applying it.
C28_Witness ==
  /\ bases["A"].ready /\ bases["A"].status = "open" /\ bases["A"].pc = "idle"
  /\ bases["A"].startSeq = 2
  /\ bases["A"].targetSeq = 2
  /\ bases["A"].hooked = <<2>>
  /\ 2 \in Main.retained

\* The document under seqKey holds a number: decimal digits and nothing else.
Numeric(doc) ==
  doc # <<>> /\ doc[1] # <<>> /\ \A i \in 1..Len(doc[1]) : IsDigit(doc[1][i])

\* C29: the checkpoint persisted under <stream>_last_processed_seq never
\* decreases, across close and reopen too; a projector that starts on a
\* missing or non-numeric value opens its consumer at 1, and one that starts
\* on a number opens it at that number plus one.
C29_CheckpointMonotone ==
  [][\A b \in Bases :
       /\ ReadCheckpoint(bases'[b].seqStr) >= ReadCheckpoint(bases[b].seqStr)
       /\ (bases[b].status # "open" /\ bases'[b].status = "open")
            => IF Numeric(bases[b].seqStr)
               THEN bases[b].seqStr = <<SeqToString(bases'[b].cursor - 1)>>
               ELSE bases'[b].cursor = 1]_vars

\* The db document and the MetaData entry of key k in base b go together, and
\* are there exactly when the event applied last for k is a PUT.
Coupled(b, k) ==
  /\ k \in DOMAIN bases[b].db <=> k \in DOMAIN bases[b].meta
  /\ k \notin DOMAIN bases[b].db <=>
        \/ AppliedFor(b, k) = {}
        \/ LogOf(b).hist[SetMax(AppliedFor(b, k))].type = "DELETE"

\* C30: once an event has been applied in full, every key has a document in
\* db exactly when it has a MetaData entry in meta, and has neither exactly
\* when the last event applied for it is a DELETE or no PUT was applied for it.
C30_Coupling ==
  [][\A b \in Bases :
       bases'[b].applied # bases[b].applied => \A k \in Keys : Coupled(b, k)']_vars

\* A key put and deleted is gone from db and meta while another key, put
\* after it, is in both.
C30_Witness ==
  /\ bases["A"].applied = {1, 2, 3}
  /\ Main.hist[1].type = "PUT" /\ Main.hist[1].id = "k1"
  /\ Main.hist[2].type = "DELETE" /\ Main.hist[2].id = "k1"
  /\ Main.hist[3].type = "PUT" /\ Main.hist[3].id = "k2"
  /\ "k1" \notin DOMAIN bases["A"].db \cup DOMAIN bases["A"].meta
  /\ "k2" \in DOMAIN bases["A"].db \cap DOMAIN bases["A"].meta

\* ------------------------------------------------- instance properties ----
\* The pair is what base b holds for key k once PUT s has been applied in
\* full: the data of s, modified at the time of s.
PairOf(pair, k, s) ==
  /\ pair.meta # Null
  /\ pair.data = Doc(k, Main.hist[s].data)
  /\ pair.meta[1].dateModified = LogTime(s)

\* C31: a get that runs while the projector applies events returns null or
\* a pair whose meta is present and whose meta and data come from the same
\* applied PUT of the key.
C31_GetConsistentPair ==
  (ret.op = "get" /\ ret.error = "none" /\ ret.result # Null)
    => \E s \in PutsOf(ret.key) : PairOf(ret.result[1], ret.key, s)

\* C32: each public operation invoked on an open base leaves lastAccessed at
\* the time of the invocation: a read or subscribe that returns, a put or
\* delete that starts.
C32_LastAccessedFresh ==
  [][/\ (ret'.op \in {"get", "keys", "query", "subscribe"} /\ ret'.error = "none")
          => bases'[ret'.base].lastAccessed = mgr'.now
     /\ \A o \in OpIds :
          (ops[o].pc = "idle" /\ ops'[o].pc = "published")
            => bases'[OpBase(o)].lastAccessed = mgr'.now]_vars

C34_PutNeverMissesProjection ==
  ~(ret.op = "put" /\ ret.error = ProjectionMissing)

\* C35: on an open base getActiveSubscriptions() is the number of callbacks
\* registered, over all filters, whatever subscribe and dispose calls were
\* made, a handle invoked more than once included.
C35_CounterMatchesCallbacks ==
  \A b \in Bases :
    bases[b].status = "open" => bases[b].activeSubscriptions = Cardinality(Subscribers(b))

\* The step notifies the subscribers of base b and handle h is invoked by a
\* callback during it.
DisposedInNotify(b, h) ==
  /\ bases'[b].applied # bases[b].applied
  /\ h \in 1..Len(bases[b].handles)
  /\ ~bases[b].handles[h].ran /\ bases'[b].handles[h].ran

\* C36: when a callback invokes a dispose handle of its filter while it is
\* notified of an event, the other callbacks registered under that filter
\* at the start of the notification are all invoked for the event.
C36_DisposeDuringNotify ==
  [][\A b \in Bases, h \in 1..MaxSubs :
       DisposedInNotify(b, h) =>
         \A cb \in SubCallbacks \ {bases[b].handles[h].cb} :
           CountCalls(NewCalls(b), bases[b].handles[h].filter, cb)
             >= Registered(bases[b].subscriptions, bases[b].handles[h].filter, cb)]_vars

\* C37: a base that is being opened becomes ready when its consumer is handed
\* every retained message, also when the message at the last_seq captured at
\* startup was purged and nothing is published any more.
C37_OpenLiveness ==
  \A b \in Bases : (bases[b].status = "open" /\ ~bases[b].ready) ~> bases[b].ready

\* C38: the manager keeps no failed open: a getStream call made after
\* createEventbase rejected for the name does not take the rejected promise,
\* it starts a new open.
C38_FailedOpenNotRetained ==
  [][\A c \in Callers, name \in Streams :
       Binds(c, name) => bases[mgr'.calls[c].inst].status # "failed"]_vars

\* C39: when closeAll returns the cleanup timer is stopped and every base the
\* manager has opened is closed (or failed to open): none is open, or still
\* opening, outside the map, also when getStream was called while closeAll
\* was awaiting the closes.
C39_CloseAllLeavesNothingOpen ==
  [][ret'.op = "closeAll"
       => /\ ~mgr'.cleanupInterval
          /\ \A i \in 1..Len(mgr'.created) :
                bases'[mgr'.created[i].inst].status \in {"closed", "failed"}]_vars

\* The events the manager has emitted for a name, in order.
EmissionsFor(name) ==
  LET at == {i \in 1..Len(mgr.emitted) : mgr.emitted[i].name = name}
  IN [n \in 1..Cardinality(at) |->
        mgr.emitted[CHOOSE i \in at : Cardinality({j \in at : j <= i}) = n].event]

\* C40: for each name 'stream:opened' and 'stream:closed' alternate, starting
\* with 'stream:opened': no open is announced closed twice, and none is
\* announced while the one before it has not been announced closed, also
\* when a sweep overlaps closeAll.
C40_EmissionsAlternate ==
  \A name \in Streams :
    \A n \in 1..Len(EmissionsFor(name)) :
      EmissionsFor(name)[n] = IF n % 2 = 1 THEN "stream:opened" ELSE "stream:closed"

====
